---- MODULE Spec2Model ----
(***************************************************************************)
(* A state-machine model of the hermes listing service:                   *)
(*   - Pipeline::run and its stages          (src/src/pipeline.rs)         *)
(*   - the offer reconciliation protocol     (src/src/pipeline.rs,         *)
(*                                            src/src/ebay/offers.rs)      *)
(*   - the asynchronous job queue            (src/src/jobs.rs)             *)
(*   - API-key authentication and the token-bucket rate limiter            *)
(*                                           (src/src/security.rs)         *)
(*   - the idempotency cache of create_listing (src/src/main.rs,           *)
(*                                            src/src/idempotency.rs)      *)
(*   - aspect reconciliation, truncation and the listing plan              *)
(*                                           (src/src/hsuf/transform.rs)   *)
(* Spec     : runs of the pipeline against a marketplace.                  *)
(* SpecJobs : request handlers enqueueing jobs and the background worker.  *)
(* FairSpecJobs : SpecJobs with a fairly scheduled worker.                 *)
(* SpecGate : requests passing through require_api_auth.                   *)
(* SpecIdem : concurrent create_listing calls carrying Idempotency-Key.    *)
(* SpecHsuf : the stages that read only their arguments, one call at a     *)
(*            time.                                                        *)
(***************************************************************************)
EXTENDS Integers, Sequences, FiniteSets, TLC

VARIABLES
    \* ---- Pipeline (process-wide configuration, fixed at construction)
    pipe,           \* [ebay_network_enabled, ebay_refresh_token, supabase]
    \* ---- the marketplace (external collaborator)
    faithful,       \* TRUE: create answers 409 exactly when the SKU has an offer
    offers,         \* the marketplace's offer table, in creation order
    \* ---- one Pipeline::run
    runs,           \* number of runs started so far
    req,            \* the ListingRequest of the current run
    auth,           \* Option<AuthContext> of the current run
    pc,             \* position of the run
    stages,         \* Vec<StageReport> of the run
    org_config,     \* Option<EbayOrgConfig>
    images,         \* resolved images
    selection,      \* CategorySelection
    conditions,     \* ConditionBundle
    product,        \* the extracted Product
    listing,        \* the ListingPlan
    ebay_token,     \* Option<String>: the marketplace access token
    po,             \* locals of publish_offer / reconcile_existing_offer
    calls,          \* outbound calls issued by the run, in order
    result,         \* what run() returned to its caller (None while running)
    \* ---- JobQueue
    statuses,       \* HashMap<Uuid, JobState>
    chan,           \* the bounded mpsc channel
    hpc,            \* position of each request handler in enqueue_listing
    hjob,           \* the job id a handler generated
    hret,           \* what enqueue_listing returned to the handler
    wpc,            \* position of the worker task
    wjob,           \* the job the worker holds
    wres,           \* the result of the worker's pipeline.run
    next_id,        \* number of UUIDs generated
    last_get,       \* result of the latest JobQueue::get
    \* ---- require_api_auth (AuthState)
    limiter,        \* TokenBuckets: capacity and rate_per_sec, fixed at start
    buckets,        \* HashMap<String, BucketState> behind the mutex
    now,            \* the monotonic clock read by Instant::now()
    gate,           \* each request in the middleware: position, headers, outcome
    burst,          \* history: when each bucket was last full, admissions since
    arrived,        \* history: number of requests that reached the middleware
    \* ---- create_listing (idempotency)
    redis,          \* the remote cache: configured, reachable, and its entries
    idem,           \* AppState.idempotency: HashMap<String, ListingResponse>
    cl,             \* each create_listing call: position, key, response
    hist,           \* history: calls begun and pipeline executions
    \* ---- hsuf::transform and the stages that read no outside state
    hsuf            \* the last call of a pure stage: its inputs and what it returned

pipeVars == <<pipe, faithful, offers, runs, req, auth, pc, stages, org_config,
              images, selection, conditions, product, listing, ebay_token, po,
              calls, result>>
jobVars == <<statuses, chan, hpc, hjob, hret, wpc, wjob, wres, next_id, last_get>>
gateVars == <<limiter, buckets, now, gate, burst, arrived>>
idemVars == <<redis, idem, cl, hist>>
hsufVars == <<hsuf>>
apiVars == <<gateVars, idemVars, hsufVars>>
vars == <<pipeVars, jobVars, apiVars>>

None == "None"

(***************************************************************************)
(* Strings                                                                 *)
(***************************************************************************)
CharAt(s, i) == SubSeq(s, i, i)

IsSpace(c) == c \in {" ", "\n", "\t"}

RECURSIVE TrimStart(_)
TrimStart(s) ==
    IF Len(s) > 0 /\ IsSpace(CharAt(s, 1)) THEN TrimStart(SubSeq(s, 2, Len(s))) ELSE s

RECURSIVE TrimEnd(_)
TrimEnd(s) ==
    IF Len(s) > 0 /\ IsSpace(CharAt(s, Len(s))) THEN TrimEnd(SubSeq(s, 1, Len(s) - 1)) ELSE s

Trim(s) == TrimEnd(TrimStart(s))

\* str::contains
Contains(s, sub) ==
    \E i \in 1..(Len(s) + 1) :
        i + Len(sub) - 1 <= Len(s) /\ SubSeq(s, i, i + Len(sub) - 1) = sub

StartsWith(s, prefix) ==
    Len(prefix) <= Len(s) /\ SubSeq(s, 1, Len(prefix)) = prefix

\* position of the first occurrence of the one-character string c, 0 if none
IndexOf(s, c) ==
    IF \E i \in 1..Len(s) : CharAt(s, i) = c
    THEN CHOOSE i \in 1..Len(s) :
            CharAt(s, i) = c /\ \A j \in 1..(i - 1) : CharAt(s, j) # c
    ELSE 0

\* Iterator::take
Take(seq, n) == SubSeq(seq, 1, IF Len(seq) < n THEN Len(seq) ELSE n)

(***************************************************************************)
(* Errors and stage outcomes                                               *)
(***************************************************************************)
\* PipelineError::invalid_input
invalid_input(stage, message) ==
    [stage |-> stage, kind |-> "InvalidInput", detail |-> message]

\* an error of a third kind
internal_as_fatal(stage, message) ==
    [stage |-> stage, kind |-> "Fatal", detail |-> message]

\* PipelineError::internal
internal(stage, message) ==
    [stage |-> stage, kind |-> "Internal", detail |-> message]

\* Ok(StageOutcome::new(value, output)) and Err(PipelineError)
OkOutcome(value, output) == [ok |-> TRUE, value |-> value, output |-> output]
ErrOutcome(err) == [ok |-> FALSE, err |-> err]

\* StageReport::new (elapsed_ms and timestamp are not modelled)
StageReport(name, output) == [name |-> name, output |-> output]

(***************************************************************************)
(* stages::resolve_images and its helpers                                  *)
(***************************************************************************)
\* max_images_allowed(): the MAX_IMAGES default
MAX_IMAGES == 6

IsDelim(c) == c \in {"\n", ",", ";", "|"}

RECURSIVE SplitAcc(_, _, _, _)
SplitAcc(s, i, cur, acc) ==
    IF i > Len(s) THEN Append(acc, cur)
    ELSE IF IsDelim(CharAt(s, i)) THEN SplitAcc(s, i + 1, "", Append(acc, cur))
    ELSE SplitAcc(s, i + 1, cur \o CharAt(s, i), acc)

RECURSIVE MapTrim(_)
MapTrim(seq) ==
    IF seq = <<>> THEN <<>> ELSE <<Trim(Head(seq))>> \o MapTrim(Tail(seq))

NonEmptyStr(s) == Len(s) > 0

\* stages::tokenize
tokenize(value) ==
    IF \E i \in 1..Len(value) : IsDelim(CharAt(value, i))
    THEN SelectSeq(MapTrim(SplitAcc(value, 1, "", <<>>)), NonEmptyStr)
    ELSE <<Trim(value)>>

RECURSIVE FlatTokenize(_)
FlatTokenize(values) ==
    IF values = <<>> THEN <<>>
    ELSE tokenize(Head(values)) \o FlatTokenize(Tail(values))

\* stages::add_signature
add_signature(url) ==
    IF Contains(url, "signature=demo") THEN url
    ELSE IF Contains(url, "?") THEN url \o "&signature=demo"
    ELSE url \o "?signature=demo"

RECURSIVE MapSign(_)
MapSign(seq) ==
    IF seq = <<>> THEN <<>> ELSE <<add_signature(Head(seq))>> \o MapSign(Tail(seq))

RECURSIVE DedupAcc(_, _)
DedupAcc(values, acc) ==
    IF values = <<>> THEN acc
    ELSE IF \E i \in 1..Len(acc) : acc[i] = Head(values)
         THEN DedupAcc(Tail(values), acc)
         ELSE DedupAcc(Tail(values), Append(acc, Head(values)))

\* stages::deduplicate
deduplicate(values) == DedupAcc(values, <<>>)

SchemeChars == "abcdefghijklmnopqrstuvwxyz0123456789+-."

\* reqwest::Url::parse as far as resolve_images reads it: the scheme, or None
\* when the text is no absolute URL.
UrlScheme(url) ==
    LET i == IndexOf(url, ":") IN
    IF i <= 1 THEN None
    ELSE IF \A j \in 1..(i - 1) : Contains(SchemeChars, CharAt(url, j))
         THEN IF Len(url) > i THEN SubSeq(url, 1, i - 1) ELSE None
         ELSE None

NoError == [stage |-> None, kind |-> None, detail |-> None]

\* the first error of the validation loop over the resolved URLs, or NoError
RECURSIVE ValidateUrls(_)
ValidateUrls(urls) ==
    IF urls = <<>> THEN NoError
    ELSE LET scheme == UrlScheme(Head(urls)) IN
         IF scheme = None
         THEN invalid_input("resolve_images", "invalid_image_url")
         ELSE IF scheme \notin {"http", "https"}
              THEN invalid_input("resolve_images", "unsupported_url_scheme")
              ELSE ValidateUrls(Tail(urls))

\* stages::resolve_images (IMAGE_DOMAIN_ALLOWLIST is unset: no allowlist)
resolve_images(request) ==
    LET entries  == SelectSeq(MapTrim(FlatTokenize(request.images_source)), NonEmptyStr)
        signed   == IF request.use_signed_urls THEN MapSign(entries) ELSE entries
        resolved == deduplicate(signed)
    IN  IF Len(resolved) > MAX_IMAGES
        THEN ErrOutcome(invalid_input("resolve_images", "too_many_images"))
        ELSE IF resolved = <<>>
        THEN ErrOutcome(invalid_input("resolve_images", "no images provided"))
        ELSE IF ValidateUrls(resolved) # NoError
        THEN ErrOutcome(ValidateUrls(resolved))
        ELSE OkOutcome(resolved,
                       [count |-> Len(resolved), source |-> None,
                        use_signed_urls |-> request.use_signed_urls])

\* an override branch without the limit on the number of images
resolve_images_override_unbounded(request, imgs) ==
    IF imgs = <<>>
    THEN ErrOutcome(invalid_input("resolve_images", "no images provided"))
    ELSE OkOutcome(imgs, [count |-> Len(imgs), source |-> "override",
                          use_signed_urls |-> request.use_signed_urls])

\* the override branch of Pipeline::run for resolve_images
resolve_images_override(request, imgs) ==
    IF imgs = <<>>
    THEN ErrOutcome(invalid_input("resolve_images", "no images provided"))
    ELSE IF Len(imgs) > MAX_IMAGES
    THEN ErrOutcome(invalid_input("resolve_images", "too_many_images"))
    ELSE OkOutcome(imgs, [count |-> Len(imgs), source |-> "override",
                          use_signed_urls |-> request.use_signed_urls])


(***************************************************************************)
(* compute_seed, select_category, fetch_taxonomy, acquire_user_token,      *)
(* prepare_conditions                                                      *)
(***************************************************************************)
\* The seed enters the pipeline only through seed % categories.len() and
\* seed % 40; 5 divides 40, so the hash is kept modulo 40.
SeedMod == 40

Alphabet == "abcdefghijklmnopqrstuvwxyz0123456789-_:/.?=& ABCDEFGHIJKLMNOPQRSTUVWXYZ"

CharCodes == [c \in { CharAt(Alphabet, i) : i \in 1..Len(Alphabet) } |-> IndexOf(Alphabet, c)]

CharCode(c) == IF c \in DOMAIN CharCodes THEN CharCodes[c] ELSE 0

\* Hash::hash of a str: its bytes from position i on, then the 0xff
\* terminator (the test on h only makes the accumulator evaluate eagerly)
RECURSIVE HashStr(_, _, _)
HashStr(h, s, i) ==
    IF h < 0 \/ i > Len(s) THEN (h * 31 + 39) % SeedMod
    ELSE HashStr((h * 31 + CharCode(CharAt(s, i))) % SeedMod, s, i + 1)

RECURSIVE HashAll(_, _)
HashAll(h, strs) ==
    IF strs = <<>> THEN h ELSE HashAll(HashStr(h, Head(strs), 1), Tail(strs))

\* a seed that also hashes the fourth image
compute_seed_four_images(request, imgs) ==
    HashAll(0, <<request.sku, request.merchant_location_key,
                 request.fulfillment_policy_id, request.payment_policy_id,
                 request.return_policy_id, request.marketplace>> \o Take(imgs, 4))

\* compute_seed: sku, merchant location key, the three policy ids, the
\* marketplace, then the first three images, hashed in this order.
compute_seed(request, imgs) ==
    HashAll(0, <<request.sku, request.merchant_location_key,
                 request.fulfillment_policy_id, request.payment_policy_id,
                 request.return_policy_id, request.marketplace>> \o Take(imgs, 3))

CATEGORY_POOL == <<
    [id |-> "11450", tree_id |-> "0", label |-> "Clothing, Shoes & Accessories"],
    [id |-> "31387", tree_id |-> "0", label |-> "Consumer Electronics"],
    [id |-> "261178", tree_id |-> "0", label |-> "Collectibles"],
    [id |-> "281", tree_id |-> "0", label |-> "Motors Parts & Accessories"],
    [id |-> "293", tree_id |-> "0", label |-> "Health & Beauty"] >>

Min(a, b) == IF a < b THEN a ELSE b
Max(a, b) == IF a > b THEN a ELSE b

\* stages::select_category; confidence is kept in hundredths
select_category(request, imgs, categories, seed) ==
    LET idx == seed % Len(categories)
        category == categories[idx + 1]
        confidence == 55 + (seed % 40)
        rounded_confidence == Max(0, Min(Min(confidence, 95), 99))
        sel == [id |-> category.id, tree_id |-> category.tree_id,
                label |-> category.label, confidence |-> rounded_confidence]
    IN  OkOutcome(sel, [selected |-> sel, source |-> None])

\* an override branch that reports the override and hands on a pool category
select_category_override_from_pool(sel) ==
    OkOutcome([sel EXCEPT !.id = CATEGORY_POOL[1].id, !.label = CATEGORY_POOL[1].label],
              [selected |-> sel, source |-> "override"])

\* the override branch of Pipeline::run for select_category
select_category_override(sel) ==
    OkOutcome(sel, [selected |-> sel, source |-> "override"])

\* stages::build_aspects
build_aspects(category_label) ==
    LET base == << [name |-> "Brand", required |-> TRUE,
                    samples |-> <<"Hermes Labs", "Demo Labs">>],
                   [name |-> "Color", required |-> TRUE,
                    samples |-> <<"Black", "White", "Sand">>],
                   [name |-> "Condition", required |-> FALSE,
                    samples |-> <<"New", "Used">>] >>
    IN  IF Contains(category_label, "Electronics")
        THEN Append(base, [name |-> "BatteryIncluded", required |-> FALSE,
                           samples |-> <<"Yes", "No">>])
        ELSE base

\* stages::fetch_taxonomy, the TaxonomyResponse it builds from the aspects
ebay_aspects(aspects) ==
    [i \in 1..Len(aspects) |->
        [localizedAspectName |-> aspects[i].name,
         aspectValues |-> aspects[i].samples,
         aspectConstraint |->
            [some |-> TRUE,
             aspectMode |-> IF aspects[i].required THEN "SELECTION_ONLY" ELSE "FREE_TEXT",
             itemToAspectCardinality |-> "MULTI"]]]

\* stages::fetch_taxonomy
fetch_taxonomy(sel) ==
    LET spec == [category_id |-> sel.id, tree_id |-> sel.tree_id,
                 aspects |-> build_aspects(sel.label),
                 raw |-> ebay_aspects(build_aspects(sel.label))]
    IN  OkOutcome(spec, [category_id |-> spec.category_id,
                         aspect_count |-> Len(spec.aspects), source |-> None])

\* stages::acquire_user_token
acquire_user_token ==
    OkOutcome([token |-> "demo_uuid", expires_in |-> 3600],
              [token_preview |-> "demo_u", source |-> None])

UpperCase == "ABCDEFGHIJKLMNOPQRSTUVWXYZ"
LowerCase == "abcdefghijklmnopqrstuvwxyz"

RECURSIVE ToLower(_)
ToLower(s) ==
    IF Len(s) = 0 THEN ""
    ELSE LET c == CharAt(s, 1)
             i == IndexOf(UpperCase, c)
         IN  (IF i = 0 THEN c ELSE CharAt(LowerCase, i)) \o ToLower(SubSeq(s, 2, Len(s)))

\* a prepare_conditions that looks for collectible before shoe
prepare_conditions_collectible_first(sel) ==
    LET label == ToLower(sel.label)
        allowed == IF Contains(label, "collectible")
                   THEN <<"NEW", "UNOPENED", "DISPLAY_ONLY", "USED">>
                   ELSE IF Contains(label, "shoe")
                   THEN <<"NEW_IN_BOX", "USED_LIKE_NEW", "USED_GOOD", "USED_FAIR">>
                   ELSE <<"NEW", "USED_LIKE_NEW", "USED_GOOD", "USED">>
        bundle == [allowed |-> allowed, default_condition |-> allowed[1]]
    IN  OkOutcome(bundle, [allowed |-> bundle.allowed,
                           default |-> bundle.default_condition, source |-> None])

\* stages::prepare_conditions
prepare_conditions(sel) ==
    LET label == ToLower(sel.label)
        chosen == IF Contains(label, "shoe")
                  THEN <<"NEW_IN_BOX", "USED_LIKE_NEW", "USED_GOOD", "USED_FAIR">>
                  ELSE IF Contains(label, "collectible")
                  THEN <<"NEW", "UNOPENED", "DISPLAY_ONLY", "USED">>
                  ELSE <<"NEW", "USED_LIKE_NEW", "USED_GOOD", "USED">>
        allowed == IF chosen = <<>> THEN <<"USED">> ELSE chosen
        bundle == [allowed |-> allowed, default_condition |-> allowed[1]]
    IN  OkOutcome(bundle, [allowed |-> bundle.allowed,
                           default |-> bundle.default_condition, source |-> None])


(***************************************************************************)
(* extract_product, resolve_ebay_config, build_listing                     *)
(***************************************************************************)
\* A JSON product value (an LLM reply after fence stripping, or
\* overrides.product): name and image are None when the key is missing;
\* price is "missing", "null", "text" (a JSON string) or a numeral.
JsonProduct(name, image, price) == [name |-> name, image |-> image, price |-> price]

NoImageField == <<None>>

IsBlank(s) == Len(Trim(s)) = 0

\* ingest::normalize_product_value
normalize_product_value(value, imgs) ==
    [name  |-> IF value.name = None \/ IsBlank(value.name)
               THEN "Untitled Product" ELSE value.name,
     image |-> IF value.image = NoImageField \/ value.image = <<>>
                  \/ (Len(value.image) = 1 /\ IsBlank(value.image[1]))
               THEN Take(imgs, 6) ELSE value.image,
     price |-> IF value.price = "missing" THEN "text" ELSE value.price]

\* serde_json::from_value::<Product>: name and image are required, and
\* offers.price is an Option<f64>, which a JSON string does not fit.
FitsProduct(value) ==
    /\ value.name # None
    /\ value.image # NoImageField
    /\ value.price # "text"

Product(value) ==
    [name  |-> value.name,
     image |-> value.image,
     price |-> IF value.price \in {"missing", "null"} THEN None ELSE value.price,
     brand |-> None, color |-> None, material |-> None, description |-> None]

\* ingest::fallback_product
fallback_product(sku, imgs) ==
    [name |-> sku \o " listing", image |-> imgs, price |-> "99.0",
     brand |-> "Hermes Labs", color |-> "Black", material |-> "Mixed materials",
     description |-> "Automated fallback description"]

\* An LLM reply: status "error" when the chat call failed, "garbage" when
\* the text is no JSON, "json" with the parsed value otherwise.
LlmReply(status, value) == [status |-> status, value |-> value]

\* ingest::infer_product
infer_product(reply, sku, imgs) ==
    IF imgs = <<>> \/ reply.status \in {"error", "garbage"}
    THEN [ok |-> FALSE, value |-> fallback_product(sku, imgs)]
    ELSE LET value == normalize_product_value(reply.value, imgs) IN
         IF FitsProduct(value)
         THEN [ok |-> TRUE, value |-> Product(value)]
         ELSE [ok |-> FALSE, value |-> fallback_product(sku, imgs)]

\* an extract_product that hands the error of the LLM call to the run
extract_product_propagating(request, imgs, reply) ==
    LET inferred == infer_product(reply, request.sku, imgs) IN
    IF reply.status = "error"
    THEN ErrOutcome(internal("extract_product", "llm request failed"))
    ELSE OkOutcome(inferred.value,
                   [name |-> inferred.value.name, images |-> Len(imgs), source |-> None])

\* stages::extract_product: an LLM failure is replaced by the fallback
extract_product(request, imgs, reply) ==
    LET inferred == infer_product(reply, request.sku, imgs)
        prod == IF inferred.ok THEN inferred.value
                ELSE fallback_product(request.sku, imgs)
    IN  OkOutcome(prod, [name |-> prod.name, images |-> Len(imgs), source |-> None])

\* an override branch that lets through a value that does not fit HsufProduct
extract_product_override_lenient(value, imgs) ==
    OkOutcome(Product(value),
              [name |-> value.name, images |-> Len(imgs), source |-> "override"])

\* the override branch of Pipeline::run for extract_product
extract_product_override(value, imgs) ==
    IF FitsProduct(value)
    THEN OkOutcome(Product(value),
                   [name |-> value.name, images |-> Len(imgs), source |-> "override"])
    ELSE ErrOutcome(invalid_input("extract_product", "invalid_product_override"))

\* select_value
select_value(supabase_value, request_value, field) ==
    LET candidate == IF supabase_value # None THEN supabase_value ELSE request_value IN
    IF IsBlank(candidate)
    THEN ErrOutcome(invalid_input("ebay_config", "missing_" \o field))
    ELSE OkOutcome(candidate, None)

NoOrgConfig ==
    [some |-> FALSE, merchant_location_key |-> None, policy_id |-> None,
     marketplace |-> None, address_line1 |-> None]

\* MarketplaceId::ebay_code
ebay_code(marketplace) ==
    CASE marketplace = "EbayUs" -> "EBAY_US"
      [] marketplace = "EbayUk" -> "EBAY_GB"
      [] marketplace = "EbayDe" -> "EBAY_DE"

\* MarketplaceId::from_str on an already trimmed, upper-case tag
MarketplaceFromStr(input) ==
    CASE input = "EBAY_US" -> "EbayUs"
      [] input \in {"EBAY_GB", "EBAY_UK"} -> "EbayUk"
      [] input = "EBAY_DE" -> "EbayDe"
      [] OTHER -> None

\* resolve_ebay_config (the three policy ids of a tenant are one field here)
resolve_ebay_config(request, config) ==
    LET cfg(field) == IF config.some THEN field ELSE None
        key == select_value(cfg(config.merchant_location_key),
                            request.merchant_location_key, "merchant_location_key")
        ful == select_value(cfg(config.policy_id),
                            request.fulfillment_policy_id, "fulfillment_policy_id")
        pay == select_value(cfg(config.policy_id),
                            request.payment_policy_id, "payment_policy_id")
        ret == select_value(cfg(config.policy_id),
                            request.return_policy_id, "return_policy_id")
        fromCfg == IF config.some /\ config.marketplace # None
                   THEN MarketplaceFromStr(config.marketplace) ELSE None
    IN  IF ~key.ok THEN key
        ELSE IF ~ful.ok THEN ful
        ELSE IF ~pay.ok THEN pay
        ELSE IF ~ret.ok THEN ret
        ELSE OkOutcome([merchant_location_key |-> key.value,
                        marketplace |-> IF fromCfg # None THEN fromCfg
                                        ELSE request.marketplace,
                        location |-> IF config.some THEN config.address_line1 ELSE None],
                       None)

RECURSIVE FilterBlank(_)
FilterBlank(seq) ==
    IF seq = <<>> THEN <<>>
    ELSE (IF IsBlank(Head(seq)) THEN <<>> ELSE <<Head(seq)>>) \o FilterBlank(Tail(seq))

TITLE_LIMIT == 80
DESCRIPTION_LIMIT == 50000

\* transform::truncate
truncate(value, limit) ==
    IF Len(value) <= limit THEN value
    ELSE Trim(SubSeq(value, 1, IF limit < 3 THEN 0 ELSE limit - 3)) \o "..."

\* the text of s up to its first line break
FirstLine(s) ==
    LET i == IndexOf(s, "\n") IN IF i = 0 THEN s ELSE SubSeq(s, 1, i - 1)

\* transform::build_fallback_description (a product's size is left out)
build_fallback_description(prod) ==
    LET lines == (IF prod.brand # None THEN <<"Brand: " \o prod.brand>> ELSE <<>>)
                 \o (IF prod.color # None THEN <<"Color: " \o prod.color>> ELSE <<>>)
                 \o (IF prod.material # None THEN <<"Material: " \o prod.material>> ELSE <<>>)
                 \o (IF prod.description # None THEN <<prod.description>> ELSE <<>>)
    IN  IF lines = <<>> THEN prod.name
        ELSE lines[1] \o (IF Len(lines) > 1 THEN "\n" \o lines[2] ELSE "")
                      \o (IF Len(lines) > 2 THEN "\n" \o lines[3] ELSE "")
                      \o (IF Len(lines) > 3 THEN "\n" \o lines[4] ELSE "")

\* bullet_points_from_product
bullet_points_from_product(prod) ==
    LET bullets ==
            (IF prod.brand # None
             THEN <<"Authentic " \o prod.brand \o " craftsmanship">> ELSE <<>>)
            \o (IF prod.color # None
                THEN <<"Distinctive " \o prod.color \o " finish">> ELSE <<>>)
            \o (IF prod.material # None
                THEN <<"Premium " \o prod.material \o " materials">> ELSE <<>>)
            \o (IF prod.description # None THEN <<FirstLine(prod.description)>> ELSE <<>>)
    IN  IF bullets = <<>> THEN <<"LLM-enriched listing details">> ELSE Take(bullets, 4)

\* stages::build_listing, the description it writes when the LLM call failed
llm_description_fallback(title, bullets) ==
    title \o "\n\n" \o "Highlights:\n"
    \o (IF Len(bullets) > 0 THEN "- " \o bullets[1] \o "\n" ELSE "")
    \o (IF Len(bullets) > 1 THEN "- " \o bullets[2] \o "\n" ELSE "")
    \o (IF Len(bullets) > 2 THEN "- " \o bullets[3] \o "\n" ELSE "")
    \o (IF Len(bullets) > 3 THEN "- " \o bullets[4] \o "\n" ELSE "")
    \o "\nAuto-generated demo description. Details may be approximations."

\* transform::build_listing_draft: MissingPrice and MissingImages
build_listing_draft(prod, category_id) ==
    IF prod.price = None THEN [ok |-> FALSE, err |-> "offer missing price information"]
    ELSE IF FilterBlank(prod.image) = <<>>
    THEN [ok |-> FALSE, err |-> "product image set is empty"]
    ELSE [ok |-> TRUE,
          value |-> [title |-> truncate(prod.name, TITLE_LIMIT),
                     description |->
                        truncate(IF prod.description # None THEN prod.description
                                 ELSE build_fallback_description(prod),
                                 DESCRIPTION_LIMIT),
                     price |-> prod.price,
                     category_id |-> category_id, images |-> FilterBlank(prod.image)]]

\* stages::build_listing; chat is "error" when the description call failed,
\* else the text the LLM returned.
build_listing(request, prod, taxo, conds, chat, ebay_cfg) ==
    LET draft == build_listing_draft(prod, taxo.category_id) IN
    IF ~draft.ok THEN ErrOutcome(internal("build_listing", draft.err))
    ELSE LET plan == [sku |-> request.sku,
                      title |-> draft.value.title,
                      price |-> draft.value.price,
                      condition |-> conds.default_condition,
                      description |-> IF chat = "error"
                                      THEN llm_description_fallback(
                                              draft.value.title,
                                              bullet_points_from_product(prod))
                                      ELSE chat,
                      marketplace |-> ebay_cfg.marketplace,
                      merchant_location_key |-> ebay_cfg.merchant_location_key,
                      category_id |-> draft.value.category_id,
                      media |-> draft.value.images]
         IN  OkOutcome(plan, [title |-> plan.title, condition |-> plan.condition,
                              source |-> None])


(***************************************************************************)
(* Inputs                                                                  *)
(***************************************************************************)
MaxRuns == 2

NoSelection == [id |-> None, tree_id |-> None, label |-> None, confidence |-> 0]

NoOverrides ==
    [some |-> FALSE,
     resolved_images |-> [some |-> FALSE, v |-> <<>>],
     category |-> [some |-> FALSE, v |-> NoSelection],
     product |-> [some |-> FALSE, v |-> JsonProduct(None, NoImageField, "missing")]]

\* tests::sample_request
SampleRequest ==
    [images_source |-> <<"https://a/1.jpg", "https://a/2.jpg">>,
     sku |-> "S1",
     merchant_location_key |-> "loc-1",
     fulfillment_policy_id |-> "fulfill-123",
     payment_policy_id |-> "payment-123",
     return_policy_id |-> "return-123",
     marketplace |-> "EbayUs",
     use_signed_urls |-> FALSE,
     overrides |-> NoOverrides,
     dry_run |-> FALSE]

ManyImages == [i \in 1..(MAX_IMAGES + 1) |-> "https://a/" \o ToString(i)]

\* MAX_IMAGES + 1 entries, two of them the same URL
RepeatedImages ==
    <<"https://a/1">> \o [i \in 1..MAX_IMAGES |-> "https://a/" \o ToString(i)]

\* images_source: Single(v) is the one-element list <<v>>
ImageInputs ==
    { <<"https://a/1.jpg">>,
      <<" https://a/1 , https://a/2;https://a/1">>,
      <<"">>,
      <<"ftp://a/3", "https://a/1">>,
      <<"a.jpg">>,
      RepeatedImages,
      ManyImages }

OverrideImages ==
    { <<>>,
      <<"https://a/1", "https://a/2">>,
      <<"ftp://example.com/a.jpg", "https://a/1">>,
      ManyImages }

OverrideCategory ==
    [id |-> "31387", tree_id |-> "0", label |-> "Consumer Electronics", confidence |-> 80]

\* overrides.category: a category of the pool, and one the pool does not
\* hold, with a confidence as the caller wrote it
OverrideCategories ==
    { OverrideCategory,
      [id |-> "93427", tree_id |-> "0", label |-> "Collectible Shoes", confidence |-> 150] }

OverrideProducts ==
    { JsonProduct("Override", <<"https://a/o.jpg">>, "10.00"),
      JsonProduct(None, <<"https://a/o.jpg">>, "10.00"),
      JsonProduct("Override", <<"https://a/o.jpg">>, "null") }

\* overrides varied one field at a time, and all three at once
OverrideSet ==
    { [NoOverrides EXCEPT !.some = TRUE, !.resolved_images = [some |-> TRUE, v |-> x]] :
        x \in OverrideImages }
    \cup { [NoOverrides EXCEPT !.some = TRUE, !.category = [some |-> TRUE, v |-> x]] :
        x \in OverrideCategories }
    \cup { [NoOverrides EXCEPT !.some = TRUE, !.product = [some |-> TRUE, v |-> x]] :
        x \in OverrideProducts }
    \cup { [some |-> TRUE,
            resolved_images |-> [some |-> TRUE, v |-> <<"https://a/1", "https://a/2">>],
            category |-> [some |-> TRUE, v |-> OverrideCategory],
            product |-> [some |-> TRUE,
                         v |-> JsonProduct("Override", <<"https://a/o.jpg">>, "10.00")]] }

\* The requests a run is started with: the sample request varied in one
\* family of fields at a time.
Requests ==
    { [SampleRequest EXCEPT !.dry_run = d, !.marketplace = m] :
        d \in BOOLEAN, m \in {"EbayUs", "EbayUk"} }
    \cup { [SampleRequest EXCEPT !.images_source = i, !.use_signed_urls = u] :
        i \in ImageInputs, u \in BOOLEAN }
    \cup { [SampleRequest EXCEPT !.merchant_location_key = " "] }
    \cup { [SampleRequest EXCEPT !.overrides = o, !.dry_run = d] :
        o \in OverrideSet, d \in BOOLEAN }

\* A run that follows another one repeats the sample request, on either
\* marketplace, live or as a dry run
RerunRequests ==
    { [SampleRequest EXCEPT !.dry_run = d, !.marketplace = m] :
        d \in BOOLEAN, m \in {"EbayUs", "EbayUk"} }

\* What the LLM answers to extract_product, and to the description prompt
LlmProductReplies ==
    { LlmReply("error", JsonProduct(None, NoImageField, "missing")),
      LlmReply("garbage", JsonProduct(None, NoImageField, "missing")),
      LlmReply("json", JsonProduct("Sneaker", <<"https://cdn/x.jpg">>, "19.99")),
      LlmReply("json", JsonProduct(None, NoImageField, "missing")),
      LlmReply("json", JsonProduct("Sneaker", <<" ", " ">>, "19.99")),
      LlmReply("json", JsonProduct(" ", <<>>, "null")) }

LlmChatReplies == { "error", "A polished description" }

\* What the tenant-config store answers
OrgConfigs ==
    { [some |-> TRUE, merchant_location_key |-> "tenant-loc", policy_id |-> "tenant-policy",
       marketplace |-> "EBAY_GB", address_line1 |-> "1 Main St"],
      [some |-> TRUE, merchant_location_key |-> "tenant-loc", policy_id |-> " ",
       marketplace |-> None, address_line1 |-> None] }

\* Pipeline::new: EBAY_ENABLE_NETWORK, EBAY_REFRESH_TOKEN, SupabaseClient::from_env
PipelineConfigs ==
    { [ebay_network_enabled |-> n, ebay_refresh_token |-> t, supabase |-> FALSE] :
        n \in BOOLEAN, t \in BOOLEAN }
    \cup { [ebay_network_enabled |-> n, ebay_refresh_token |-> n, supabase |-> TRUE] :
        n \in BOOLEAN }


\* Option<AuthContext> of a run
NoAuth == [some |-> FALSE, org_id |-> None]

Auths ==
    { NoAuth,
      [some |-> TRUE, org_id |-> "demo-org"],
      [some |-> TRUE, org_id |-> "6f1c2d3e-0a1b-4c2d-8e3f-0123456789ab"] }

HexChars == "0123456789abcdefABCDEF"

\* Uuid::parse_str: the hyphenated and the simple form
IsUuid(s) ==
    \/ /\ Len(s) = 36
       /\ \A i \in 1..36 :
            IF i \in {9, 14, 19, 24} THEN CharAt(s, i) = "-"
            ELSE Contains(HexChars, CharAt(s, i))
    \/ /\ Len(s) = 32
       /\ \A i \in 1..32 : Contains(HexChars, CharAt(s, i))

(***************************************************************************)
(* Pipeline::run                                                           *)
(***************************************************************************)
StageNames ==
    <<"resolve_images", "select_category", "fetch_taxonomy", "acquire_user_token",
      "prepare_conditions", "extract_product", "build_listing", "push_inventory",
      "publish_offer">>

NoResult == [tag |-> "none", listing_id |-> None, stages |-> <<>>, err |-> NoError]

\* a capture_stage that pushes the report in front of the earlier ones
capture_stage_front(name, reports, outcome) ==
    IF outcome.ok THEN <<[name |-> name, output |-> outcome.output]>> \o reports ELSE reports

\* a capture_stage that pushes the report of a stage twice
capture_stage_twice(name, reports, outcome) ==
    IF outcome.ok
    THEN reports \o <<[name |-> name, output |-> outcome.output],
                      [name |-> name, output |-> outcome.output]>>
    ELSE reports

\* an error that hands the collected reports to the caller
ErrResult_with_reports(err, reports) ==
    [tag |-> "err", listing_id |-> None, stages |-> reports, err |-> err]

\* Ok(ListingResponse { listing_id, stages })
OkResult(listing_id, reports) ==
    [tag |-> "ok", listing_id |-> listing_id, stages |-> reports, err |-> NoError]

\* Err(PipelineError): the error carries stage, kind and detail only
ErrResult(err, reports) ==
    [tag |-> "err", listing_id |-> None, stages |-> <<>>, err |-> err]

\* Pipeline::capture_stage: the report is pushed only after fut.await? passed
capture_stage(name, reports, outcome) ==
    IF outcome.ok THEN Append(reports, StageReport(name, outcome.output)) ELSE reports

\* an outbound call and what it answered
Call(op, target, resp) == [op |-> op, target |-> target, resp |-> resp]

NoProduct ==
    [name |-> None, image |-> <<>>, price |-> None,
     brand |-> None, color |-> None, material |-> None, description |-> None]
NoTaxonomy == [category_id |-> None, tree_id |-> None, aspects |-> <<>>, raw |-> <<>>]
NoConditions == [allowed |-> <<>>, default_condition |-> None]
NoListing ==
    [sku |-> None, title |-> None, price |-> None, condition |-> None,
     description |-> None, marketplace |-> None, merchant_location_key |-> None,
     category_id |-> None, media |-> <<>>]
NoPo == [offer_id |-> None, candidate |-> None, lookup |-> <<>>, published |-> None]

PipeInit ==
    /\ pipe \in PipelineConfigs
    /\ faithful \in BOOLEAN
    /\ offers = <<>>
    /\ runs = 0
    /\ req = SampleRequest
    /\ auth = NoAuth
    /\ pc = "idle"
    /\ stages = <<>>
    /\ org_config = NoOrgConfig
    /\ images = <<>>
    /\ selection = NoSelection
    /\ conditions = NoConditions
    /\ product = NoProduct
    /\ listing = NoListing
    /\ ebay_token = None
    /\ po = NoPo
    /\ calls = <<>>
    /\ result = NoResult

\* a handler (or the worker) calls Pipeline::run
StartRun ==
    /\ pc = "idle"
    /\ runs < MaxRuns
    /\ runs' = runs + 1
    /\ req' \in (IF runs = 0 THEN Requests ELSE RerunRequests)
    /\ auth' \in (IF pipe.supabase THEN Auths ELSE {NoAuth})
    /\ pc' = "org_config"
    /\ stages' = <<>>
    /\ org_config' = NoOrgConfig
    /\ images' = <<>>
    /\ selection' = NoSelection
    /\ conditions' = NoConditions
    /\ product' = NoProduct
    /\ listing' = NoListing
    /\ ebay_token' = None
    /\ po' = NoPo
    /\ calls' = <<>>
    /\ result' = NoResult
    /\ UNCHANGED <<pipe, faithful, offers, jobVars, apiVars>>

\* run() has returned: its locals are dropped and the caller holds the result
\* no longer
Return ==
    /\ pc = "done"
    /\ pc' = "idle"
    /\ req' = SampleRequest
    /\ auth' = NoAuth
    /\ stages' = <<>>
    /\ org_config' = NoOrgConfig
    /\ images' = <<>>
    /\ selection' = NoSelection
    /\ conditions' = NoConditions
    /\ product' = NoProduct
    /\ listing' = NoListing
    /\ ebay_token' = None
    /\ po' = NoPo
    /\ calls' = <<>>
    /\ result' = NoResult
    /\ UNCHANGED <<pipe, faithful, offers, runs, jobVars, apiVars>>

\* the run returns Err(err): nothing after the failing point is executed
Abort(err) ==
    /\ pc' = "done"
    /\ result' = ErrResult(err, stages)

\* capture_stage(name, &mut stages, fut).await? followed by the next step
Capture(name, outcome, next) ==
    /\ stages' = capture_stage(name, stages, outcome)
    /\ IF outcome.ok
       THEN pc' = next /\ result' = result
       ELSE pc' = "done" /\ result' = ErrResult(outcome.err, stages')

\* Pipeline::run, the tenant-config lookup
LookupOrgConfig ==
    /\ pc = "org_config"
    /\ IF auth.some /\ pipe.supabase
       THEN IF ~IsUuid(auth.org_id)
            THEN /\ Abort(internal("supabase", "invalid uuid"))
                 /\ UNCHANGED <<org_config, calls>>
            ELSE \E resp \in {NoOrgConfig} \cup OrgConfigs, failed \in BOOLEAN :
                    /\ failed => resp = NoOrgConfig
                    /\ org_config' = resp
                    /\ calls' = Append(calls, Call("fetch_ebay_org_config", auth.org_id,
                                                   IF failed THEN "error" ELSE "ok"))
                    /\ pc' = "resolve_images"
                    /\ result' = result
       ELSE /\ org_config' = NoOrgConfig
            /\ pc' = "resolve_images"
            /\ UNCHANGED <<calls, result>>
    /\ UNCHANGED <<pipe, faithful, offers, runs, req, auth, stages, images, selection,
                   conditions, product, listing, ebay_token, po, jobVars, apiVars>>

\* Pipeline::run, resolve_images or its override
ResolveImages ==
    /\ pc = "resolve_images"
    /\ LET outcome ==
            IF req.overrides.some /\ req.overrides.resolved_images.some
            THEN resolve_images_override(req, req.overrides.resolved_images.v)
            ELSE resolve_images(req)
       IN  /\ Capture("resolve_images", outcome, "select_category")
           /\ images' = IF outcome.ok THEN outcome.value ELSE images
    /\ UNCHANGED <<pipe, faithful, offers, runs, req, auth, org_config, selection,
                   conditions, product, listing, ebay_token, po, calls, jobVars, apiVars>>

\* Pipeline::run, select_category or its override
SelectCategory ==
    /\ pc = "select_category"
    /\ LET seed == compute_seed(req, images)
           outcome ==
            IF req.overrides.some /\ req.overrides.category.some
            THEN select_category_override(req.overrides.category.v)
            ELSE select_category(req, images, CATEGORY_POOL, seed)
       IN  /\ Capture("select_category", outcome, "fetch_taxonomy")
           /\ selection' = IF outcome.ok THEN outcome.value ELSE selection
    /\ UNCHANGED <<pipe, faithful, offers, runs, req, auth, org_config, images,
                   conditions, product, listing, ebay_token, po, calls, jobVars, apiVars>>

\* Pipeline::run, fetch_taxonomy, acquire_user_token and prepare_conditions
\* (none of them fails or reads the outside world)
FetchTaxonomy ==
    /\ pc = "fetch_taxonomy"
    /\ Capture("fetch_taxonomy", fetch_taxonomy(selection), "acquire_user_token")
    /\ UNCHANGED <<pipe, faithful, offers, runs, req, auth, org_config, images, selection,
                   conditions, product, listing, ebay_token, po, calls, jobVars, apiVars>>

AcquireUserToken ==
    /\ pc = "acquire_user_token"
    /\ Capture("acquire_user_token", acquire_user_token, "prepare_conditions")
    /\ UNCHANGED <<pipe, faithful, offers, runs, req, auth, org_config, images, selection,
                   conditions, product, listing, ebay_token, po, calls, jobVars, apiVars>>

PrepareConditions ==
    /\ pc = "prepare_conditions"
    /\ LET outcome == prepare_conditions(selection)
       IN  /\ Capture("prepare_conditions", outcome, "extract_product")
           /\ conditions' = IF outcome.ok THEN outcome.value ELSE conditions
    /\ UNCHANGED <<pipe, faithful, offers, runs, req, auth, org_config, images, selection,
                   product, listing, ebay_token, po, calls, jobVars, apiVars>>

\* Pipeline::run, extract_product or its override
ExtractProduct ==
    /\ pc = "extract_product"
    /\ IF req.overrides.some /\ req.overrides.product.some
       THEN LET outcome == extract_product_override(req.overrides.product.v, images)
            IN  /\ Capture("extract_product", outcome, "build_listing")
                /\ product' = IF outcome.ok THEN outcome.value ELSE product
                /\ calls' = calls
       ELSE \E reply \in LlmProductReplies :
            LET outcome == extract_product(req, images, reply)
            IN  /\ Capture("extract_product", outcome, "build_listing")
                /\ product' = IF outcome.ok THEN outcome.value ELSE product
                /\ calls' = Append(calls, Call("llm_chat", "extract_product",
                                               IF reply.status = "error" THEN "error"
                                               ELSE "ok"))
    /\ UNCHANGED <<pipe, faithful, offers, runs, req, auth, org_config, images, selection,
                   conditions, listing, ebay_token, po, jobVars, apiVars>>

\* Pipeline::run, resolve_ebay_config then build_listing
BuildListing ==
    /\ pc = "build_listing"
    /\ LET cfg == resolve_ebay_config(req, org_config)
           taxo == fetch_taxonomy(selection).value
       IN  IF ~cfg.ok
           THEN /\ Abort(cfg.err)
                /\ UNCHANGED <<stages, listing, calls>>
           ELSE \E chat \in LlmChatReplies :
                LET outcome == build_listing(req, product, taxo, conditions, chat, cfg.value)
                IN  /\ Capture("build_listing", outcome, "after_build")
                    /\ listing' = IF outcome.ok THEN outcome.value ELSE listing
                    /\ calls' = IF outcome.ok
                                THEN Append(calls, Call("llm_chat", "description",
                                                        IF chat = "error" THEN "error" ELSE "ok"))
                                ELSE calls
    /\ UNCHANGED <<pipe, faithful, offers, runs, req, auth, org_config, images, selection,
                   conditions, product, ebay_token, po, jobVars, apiVars>>


(***************************************************************************)
(* The marketplace                                                         *)
(***************************************************************************)
\* an entry of the marketplace's offer table
Offer(offerId, sku, marketplaceId, published) ==
    [offerId |-> offerId, sku |-> sku, marketplaceId |-> marketplaceId,
     published |-> published]

\* OfferSummary
OfferSummary(offerId, marketplaceId) == [offerId |-> offerId, marketplaceId |-> marketplaceId]

RECURSIVE Summaries(_)
Summaries(table) ==
    IF table = <<>> THEN <<>>
    ELSE <<OfferSummary(Head(table).offerId, Head(table).marketplaceId)>>
         \o Summaries(Tail(table))

\* what a marketplace that keeps its table answers to get_offers_by_sku
OffersOfSku(sku) ==
    Summaries(SelectSeq(offers, LAMBDA e : e.sku = sku))

\* the lists an arbitrary marketplace may answer
LookupLists ==
    { <<>>,
      <<OfferSummary(None, "EBAY_US")>>,
      <<OfferSummary("O1", "EBAY_US")>>,
      <<OfferSummary("O7", "EBAY_GB"), OfferSummary("O8", "EBAY_US")>>,
      <<OfferSummary("O7", "EBAY_DE"), OfferSummary("O8", None)>> }

\* PublishResponse.listingId.unwrap_or_default()
ListingIds == {"", "L1"}

SetPublished(table, offerId, flag) ==
    [i \in 1..Len(table) |->
        IF table[i].offerId = offerId THEN [table[i] EXCEPT !.published = flag]
        ELSE table[i]]

\* build_offer_requests, as far as the protocol reads the two payloads
build_offer_requests(plan) ==
    [create |-> [sku |-> plan.sku,
                 marketplace_id |-> ebay_code(plan.marketplace),
                 category_id |-> plan.category_id,
                 merchant_location_key |-> plan.merchant_location_key],
     update |-> [category_id |-> plan.category_id,
                 merchant_location_key |-> plan.merchant_location_key]]

\* fallback_listing_id
fallback_listing_id == "HER-uuid"

\* a dry-run id without its prefix
unprefixed_listing_id == "uuid"

\* Pipeline::run, the id of a dry run
preview_listing_id == "PREVIEW-uuid"

\* a choice of the candidate that ignores the marketplace
candidate_first(list, marketplace_id) ==
    IF list = <<>> THEN None ELSE list[1].offerId

\* a choice of the candidate that invents an offer when there is none
candidate_invented(list, marketplace_id) ==
    IF list = <<>> \/ list[1].offerId = None THEN "O1" ELSE list[1].offerId

\* reconcile_existing_offer, the choice of the candidate: the first offer of
\* the request's marketplace, else the first offer; None when it has no id
reconcile_candidate(list, marketplace_id) ==
    LET matches == { i \in 1..Len(list) : list[i].marketplaceId = marketplace_id }
        first == IF matches # {}
                 THEN CHOOSE i \in matches : \A j \in matches : i <= j
                 ELSE 1
    IN  IF list = <<>> THEN None ELSE list[first].offerId

(***************************************************************************)
(* Pipeline::run, after build_listing                                      *)
(***************************************************************************)
\* a run that exchanges the refresh token before it looks at dry_run
AfterBuild_token_before_preview ==
    /\ pc = "after_build"
    /\ IF ~pipe.ebay_network_enabled
       THEN /\ IF req.dry_run
               THEN pc' = "done" /\ result' = OkResult(preview_listing_id, stages)
               ELSE pc' = "push_inventory" /\ result' = result
            /\ UNCHANGED <<ebay_token, calls>>
       ELSE IF ~pipe.ebay_refresh_token
       THEN /\ Abort(internal("ebay_auth", "EBAY_REFRESH_TOKEN missing"))
            /\ UNCHANGED <<ebay_token, calls>>
       ELSE \E granted \in BOOLEAN :
            /\ calls' = Append(calls, Call("exchange_refresh_token", "oauth",
                                           IF granted THEN "ok" ELSE "error"))
            /\ IF granted
               THEN /\ ebay_token' = "user-token"
                    /\ IF req.dry_run
                       THEN pc' = "done" /\ result' = OkResult(preview_listing_id, stages)
                       ELSE pc' = "push_inventory" /\ result' = result
               ELSE /\ Abort(internal("ebay_auth", "token exchange failed"))
                    /\ ebay_token' = ebay_token
    /\ UNCHANGED <<pipe, faithful, offers, runs, req, auth, stages, org_config, images,
                   selection, conditions, product, listing, po, jobVars, apiVars>>

\* the dry-run return, else Pipeline::fetch_ebay_token when the network is on
AfterBuild ==
    /\ pc = "after_build"
    /\ IF req.dry_run
       THEN /\ pc' = "done"
            /\ result' = OkResult(preview_listing_id, stages)
            /\ UNCHANGED <<ebay_token, calls>>
       ELSE IF ~pipe.ebay_network_enabled
       THEN /\ pc' = "push_inventory"
            /\ UNCHANGED <<ebay_token, calls, result>>
       ELSE IF ~pipe.ebay_refresh_token
       THEN /\ Abort(internal("ebay_auth", "EBAY_REFRESH_TOKEN missing"))
            /\ UNCHANGED <<ebay_token, calls>>
       ELSE \E granted \in BOOLEAN :
            /\ calls' = Append(calls, Call("exchange_refresh_token", "oauth",
                                           IF granted THEN "ok" ELSE "error"))
            /\ IF granted
               THEN /\ ebay_token' = "user-token"
                    /\ pc' = "push_inventory"
                    /\ result' = result
               ELSE /\ Abort(internal("ebay_auth", "token exchange failed"))
                    /\ ebay_token' = ebay_token
    /\ UNCHANGED <<pipe, faithful, offers, runs, req, auth, stages, org_config, images,
                   selection, conditions, product, listing, po, jobVars, apiVars>>

\* a push_inventory that gives up when the location upsert fails
PushInventory_location_fatal ==
    /\ pc = "push_inventory"
    /\ LET location == resolve_ebay_config(req, org_config).value.location
           receipt == [sku |-> listing.sku, location |-> listing.merchant_location_key,
                       status |-> "UPSERTED", media_attached |-> Len(listing.media)]
           hasLocation == location # None /\ Len(Trim(location)) > 0
       IN  IF ebay_token = None
           THEN /\ Capture("push_inventory", OkOutcome(receipt, receipt), "publish_offer")
                /\ calls' = calls
           ELSE \E located \in BOOLEAN, upserted \in BOOLEAN :
                LET withLocation ==
                        IF hasLocation
                        THEN Append(calls, Call("upsert_inventory_location",
                                                listing.merchant_location_key,
                                                IF located THEN "ok" ELSE "error"))
                        ELSE calls
                IN  /\ ~hasLocation => located
                    /\ ~located => ~upserted
                    /\ calls' = IF located
                                THEN Append(withLocation,
                                            Call("upsert_inventory_item", req.sku,
                                                 IF upserted THEN "ok" ELSE "error"))
                                ELSE withLocation
                    /\ Capture("push_inventory",
                               IF upserted THEN OkOutcome(receipt, receipt)
                               ELSE ErrOutcome(internal("push_inventory", "request failed")),
                               "publish_offer")
    /\ UNCHANGED <<pipe, faithful, offers, runs, req, auth, org_config, images, selection,
                   conditions, product, listing, ebay_token, po, jobVars, apiVars>>

\* stages::push_inventory
PushInventory ==
    /\ pc = "push_inventory"
    /\ LET location == resolve_ebay_config(req, org_config).value.location
           receipt == [sku |-> listing.sku, location |-> listing.merchant_location_key,
                       status |-> "UPSERTED", media_attached |-> Len(listing.media)]
       IN  IF ebay_token = None
           THEN /\ Capture("push_inventory", OkOutcome(receipt, receipt), "publish_offer")
                /\ calls' = calls
           ELSE \E located \in BOOLEAN, upserted \in BOOLEAN :
                LET withLocation ==
                        IF location # None /\ Len(Trim(location)) > 0
                        THEN Append(calls, Call("upsert_inventory_location",
                                                listing.merchant_location_key,
                                                IF located THEN "ok" ELSE "error"))
                        ELSE calls
                IN  /\ (location = None \/ Len(Trim(location)) = 0) => located
                    /\ calls' = Append(withLocation,
                                       Call("upsert_inventory_item", req.sku,
                                            IF upserted THEN "ok" ELSE "error"))
                    /\ Capture("push_inventory",
                               IF upserted THEN OkOutcome(receipt, receipt)
                               ELSE ErrOutcome(internal("push_inventory", "request failed")),
                               "publish_offer")
    /\ UNCHANGED <<pipe, faithful, offers, runs, req, auth, org_config, images, selection,
                   conditions, product, listing, ebay_token, po, jobVars, apiVars>>


(***************************************************************************)
(* stages::publish_offer and reconcile_existing_offer, one marketplace     *)
(* call per step                                                           *)
(***************************************************************************)
\* the tail of publish_offer and of Pipeline::run: the stage report, then
\* Ok(ListingResponse)
PoFinish(listing_id, offer_id) ==
    LET requests == build_offer_requests(listing)
        output == [listing_id |-> listing_id, offer_id |-> offer_id,
                   category |-> selection.label, title |-> listing.title,
                   create_offer |-> requests.create]
    IN  /\ stages' = capture_stage("publish_offer", stages, OkOutcome(listing_id, output))
        /\ result' = OkResult(listing_id, stages')
        /\ pc' = "done"

\* an error inside the stage: capture_stage(..).await? returns it
PoFail(message) ==
    Capture("publish_offer", ErrOutcome(internal("publish_offer", message)), "done")

\* a publish_offer that reconciles after any failure of create_offer
PoCreate_reconcile_any_failure ==
    /\ pc = "publish_offer"
    /\ LET create == build_offer_requests(listing).create
           new_offer_id == "O" \o ToString(Len(offers) + 1)
           exists == \E i \in 1..Len(offers) : offers[i].sku = create.sku
       IN  IF ebay_token = None
           THEN /\ PoFinish(fallback_listing_id, None)
                /\ UNCHANGED <<offers, po, calls>>
           ELSE \E resp \in {"ok", "409", "error"} :
                /\ faithful => (resp = "409" <=> exists)
                /\ calls' = Append(calls, Call("create_offer", create.sku, resp))
                /\ IF resp = "ok"
                   THEN /\ offers' = Append(offers, Offer(new_offer_id, create.sku,
                                                          create.marketplace_id, FALSE))
                        /\ po' = [po EXCEPT !.offer_id = new_offer_id]
                        /\ pc' = "po_publish"
                        /\ UNCHANGED <<stages, result>>
                   ELSE /\ pc' = "po_lookup"
                        /\ UNCHANGED <<offers, po, stages, result>>
    /\ UNCHANGED <<pipe, faithful, runs, req, auth, org_config, images, selection,
                   conditions, product, listing, ebay_token, jobVars, apiVars>>

\* publish_offer without a token, or offers::create_offer
PoCreate ==
    /\ pc = "publish_offer"
    /\ LET create == build_offer_requests(listing).create
           new_offer_id == "O" \o ToString(Len(offers) + 1)
           exists == \E i \in 1..Len(offers) : offers[i].sku = create.sku
       IN  IF ebay_token = None
           THEN /\ PoFinish(fallback_listing_id, None)
                /\ UNCHANGED <<offers, po, calls>>
           ELSE \E resp \in {"ok", "409", "error"} :
                /\ faithful => (resp = "409" <=> exists)
                /\ calls' = Append(calls, Call("create_offer", create.sku, resp))
                /\ CASE resp = "ok" ->
                          /\ offers' = Append(offers, Offer(new_offer_id, create.sku,
                                                            create.marketplace_id, FALSE))
                          /\ po' = [po EXCEPT !.offer_id = new_offer_id]
                          /\ pc' = "po_publish"
                          /\ UNCHANGED <<stages, result>>
                     [] resp = "409" ->
                          /\ pc' = "po_lookup"
                          /\ UNCHANGED <<offers, po, stages, result>>
                     [] resp = "error" ->
                          /\ PoFail("request failed")
                          /\ UNCHANGED <<offers, po>>
    /\ UNCHANGED <<pipe, faithful, runs, req, auth, org_config, images, selection,
                   conditions, product, listing, ebay_token, jobVars, apiVars>>

\* reconcile_existing_offer: offers::get_offers_by_sku and the candidate
PoLookup ==
    /\ pc = "po_lookup"
    /\ LET create == build_offer_requests(listing).create IN
       \E failed \in BOOLEAN,
          list \in (IF faithful THEN {OffersOfSku(create.sku)}
                    ELSE LookupLists \cup {OffersOfSku(create.sku)}) :
            LET candidate == reconcile_candidate(list, create.marketplace_id) IN
            /\ failed => list = <<>>
            /\ calls' = Append(calls, Call("get_offers_by_sku", create.sku,
                                           IF failed THEN "error" ELSE "ok"))
            /\ IF failed
               THEN PoFail("request failed") /\ po' = po
               ELSE IF candidate = None
               THEN /\ PoFail("no existing offer found for reconciliation")
                    /\ po' = [po EXCEPT !.lookup = list]
               ELSE /\ po' = [po EXCEPT !.lookup = list, !.candidate = candidate,
                                        !.offer_id = candidate]
                    /\ pc' = "po_update"
                    /\ UNCHANGED <<stages, result>>
    /\ UNCHANGED <<pipe, faithful, offers, runs, req, auth, org_config, images, selection,
                   conditions, product, listing, ebay_token, jobVars, apiVars>>

\* a reconciliation that publishes the candidate whether or not the update
\* went through
PoUpdate_publish_regardless ==
    /\ pc = "po_update"
    /\ \E updated \in BOOLEAN :
        /\ calls' = Append(calls, Call("update_offer", po.candidate,
                                       IF updated THEN "ok" ELSE "error"))
        /\ pc' = "po_publish"
    /\ UNCHANGED <<pipe, faithful, offers, runs, req, auth, stages, org_config, images,
                   selection, conditions, product, listing, ebay_token, po, result, jobVars, apiVars>>

\* reconcile_existing_offer: the first offers::update_offer
PoUpdate ==
    /\ pc = "po_update"
    /\ \E updated \in BOOLEAN :
        /\ calls' = Append(calls, Call("update_offer", po.candidate,
                                       IF updated THEN "ok" ELSE "error"))
        /\ pc' = IF updated THEN "po_publish" ELSE "po_withdraw"
    /\ UNCHANGED <<pipe, faithful, offers, runs, req, auth, stages, org_config, images,
                   selection, conditions, product, listing, ebay_token, po, result, jobVars, apiVars>>

\* reconcile_existing_offer: offers::withdraw_offer after a failed update
PoWithdraw ==
    /\ pc = "po_withdraw"
    /\ \E withdrawn \in BOOLEAN :
        /\ calls' = Append(calls, Call("withdraw_offer", po.candidate,
                                       IF withdrawn THEN "ok" ELSE "error"))
        /\ IF withdrawn
           THEN /\ offers' = SetPublished(offers, po.candidate, FALSE)
                /\ pc' = "po_update_retry"
                /\ UNCHANGED <<stages, result>>
           ELSE /\ PoFail("request failed")
                /\ offers' = offers
    /\ UNCHANGED <<pipe, faithful, runs, req, auth, org_config, images, selection,
                   conditions, product, listing, ebay_token, po, jobVars, apiVars>>

\* a retry that withdraws again when the second update fails
PoUpdateRetry_again ==
    /\ pc = "po_update_retry"
    /\ \E updated \in BOOLEAN :
        /\ calls' = Append(calls, Call("update_offer", po.candidate,
                                       IF updated THEN "ok" ELSE "error"))
        /\ pc' = IF updated THEN "po_publish" ELSE "po_withdraw"
    /\ UNCHANGED <<pipe, faithful, offers, runs, req, auth, stages, org_config, images,
                   selection, conditions, product, listing, ebay_token, po, result,
                   jobVars, apiVars>>

\* reconcile_existing_offer: the one retry of offers::update_offer
PoUpdateRetry ==
    /\ pc = "po_update_retry"
    /\ \E updated \in BOOLEAN :
        /\ calls' = Append(calls, Call("update_offer", po.candidate,
                                       IF updated THEN "ok" ELSE "error"))
        /\ IF updated
           THEN pc' = "po_publish" /\ UNCHANGED <<stages, result>>
           ELSE PoFail("request failed")
    /\ UNCHANGED <<pipe, faithful, offers, runs, req, auth, org_config, images, selection,
                   conditions, product, listing, ebay_token, po, jobVars, apiVars>>

\* offers::publish_offer on the created or on the reconciled offer
PoPublish ==
    /\ pc = "po_publish"
    /\ \E failed \in BOOLEAN, published \in ListingIds :
        /\ failed => published = ""
        /\ calls' = Append(calls, Call("publish_offer", po.offer_id,
                                       IF failed THEN "error" ELSE "ok"))
        /\ IF failed
           THEN /\ PoFail("request failed")
                /\ UNCHANGED <<offers, po>>
           ELSE /\ offers' = SetPublished(offers, po.offer_id, TRUE)
                /\ po' = [po EXCEPT !.published = published]
                /\ PoFinish(IF published = "" THEN fallback_listing_id ELSE published,
                            po.offer_id)
    /\ UNCHANGED <<pipe, faithful, runs, req, auth, org_config, images, selection,
                   conditions, product, listing, ebay_token, jobVars, apiVars>>


(***************************************************************************)
(* JobQueue                                                                *)
(***************************************************************************)
\* queue_capacity_from_env(): QUEUE_CAPACITY
QueueCapacity == 1

\* number of jobs enqueued in a behaviour
MaxJobs == 3

Handlers == {"h1", "h2"}

JobIds == 1..MaxJobs

\* JobState; Absent stands for a key the map does not hold
JobState(state, listing_id, error, stage) ==
    [state |-> state, listing_id |-> listing_id, error |-> error, stage |-> stage]

Absent == JobState("Absent", None, None, None)
Queued == JobState("Queued", None, None, None)
Running == JobState("Running", None, None, None)

\* the match on the run's result in the worker loop
JobStateOf(res) ==
    IF res.tag = "ok"
    THEN JobState("Completed", res.listing_id, None, None)
    ELSE JobState("Failed", None, res.err.detail, res.err.stage)

\* what Pipeline::run hands back to the worker
RunResults ==
    { OkResult("L1", <<>>),
      OkResult(preview_listing_id, <<>>),
      ErrResult(invalid_input("resolve_images", "no images provided"), <<>>),
      ErrResult(internal("publish_offer", "request failed"), <<>>) }

\* Result<Uuid, ApiError> of enqueue_listing
NoReturn == [tag |-> "none", id |-> 0, error |-> None]
EnqueueOk(id) == [tag |-> "ok", id |-> id, error |-> None]
queue_send_failed == [tag |-> "err", id |-> 0, error |-> "queue_send_failed"]

NoJobInfo == [found |-> FALSE, id |-> 0, state |-> Absent]

JobsInit ==
    /\ statuses = [id \in JobIds |-> Absent]
    /\ chan = <<>>
    /\ hpc = [h \in Handlers |-> "idle"]
    /\ hjob = [h \in Handlers |-> 0]
    /\ hret = [h \in Handlers |-> NoReturn]
    /\ wpc = "recv"
    /\ wjob = 0
    /\ wres = NoResult
    /\ next_id = 0
    /\ last_get = NoJobInfo

\* enqueue_listing: Uuid::new_v4 and the insert of Queued under the lock
EnqueueInsert(h) ==
    /\ hpc[h] \in {"idle", "done"}
    /\ next_id < MaxJobs
    /\ next_id' = next_id + 1
    /\ hjob' = [hjob EXCEPT ![h] = next_id + 1]
    /\ hret' = [hret EXCEPT ![h] = NoReturn]
    /\ statuses' = [statuses EXCEPT ![next_id + 1] = Queued]
    /\ hpc' = [hpc EXCEPT ![h] = "send"]
    /\ UNCHANGED <<chan, wpc, wjob, wres, last_get, pipeVars, apiVars>>

\* enqueue_listing: self.tx.send(job).await.  The future completes with an
\* error only when the receiver is gone; without a free slot it stays pending.
EnqueueSend(h) ==
    /\ hpc[h] = "send"
    /\ IF wpc = "stopped"
       THEN /\ hret' = [hret EXCEPT ![h] = queue_send_failed]
            /\ hpc' = [hpc EXCEPT ![h] = "done"]
            /\ chan' = chan
       ELSE IF Len(chan) < QueueCapacity
       THEN /\ chan' = Append(chan, hjob[h])
            /\ hret' = [hret EXCEPT ![h] = EnqueueOk(hjob[h])]
            /\ hpc' = [hpc EXCEPT ![h] = "done"]
       ELSE /\ hpc' = [hpc EXCEPT ![h] = "send_wait"]
            /\ UNCHANGED <<chan, hret>>
    /\ UNCHANGED <<statuses, hjob, wpc, wjob, wres, next_id, last_get, pipeVars, apiVars>>

\* the pending send is woken once the channel has a free slot
EnqueueResume(h) ==
    /\ hpc[h] = "send_wait"
    /\ Len(chan) < QueueCapacity
    /\ chan' = Append(chan, hjob[h])
    /\ hret' = [hret EXCEPT ![h] = EnqueueOk(hjob[h])]
    /\ hpc' = [hpc EXCEPT ![h] = "done"]
    /\ UNCHANGED <<statuses, hjob, wpc, wjob, wres, next_id, last_get, pipeVars, apiVars>>

\* the worker loop: rx.recv().await
WorkerRecv ==
    /\ wpc = "recv"
    /\ chan # <<>>
    /\ wjob' = Head(chan)
    /\ chan' = Tail(chan)
    /\ wpc' = "mark"
    /\ UNCHANGED <<statuses, hpc, hjob, hret, wres, next_id, last_get, pipeVars, apiVars>>

\* a worker that starts the run without recording Running
WorkerSkipRunning ==
    /\ wpc = "mark"
    /\ wpc' = "run"
    /\ UNCHANGED <<statuses, chan, hpc, hjob, hret, wjob, wres, next_id, last_get, pipeVars, apiVars>>

\* the worker loop: guard.insert(job.id, JobState::Running)
WorkerMarkRunning ==
    /\ wpc = "mark"
    /\ statuses' = [statuses EXCEPT ![wjob] = Running]
    /\ wpc' = "run"
    /\ UNCHANGED <<chan, hpc, hjob, hret, wjob, wres, next_id, last_get, pipeVars, apiVars>>

\* the worker loop: pipeline.run(job.request, Some(job.context)).await
WorkerRun ==
    /\ wpc = "run"
    /\ wres' \in RunResults
    /\ wpc' = "finish"
    /\ UNCHANGED <<statuses, chan, hpc, hjob, hret, wjob, next_id, last_get, pipeVars, apiVars>>

\* a worker that goes back to the channel without recording the result
WorkerDropResult ==
    /\ wpc = "finish"
    /\ wpc' = "recv"
    /\ UNCHANGED <<statuses, chan, hpc, hjob, hret, wjob, wres, next_id, last_get, pipeVars, apiVars>>

\* a worker that records only the successful runs
WorkerFinish_only_completed ==
    /\ wpc = "finish"
    /\ statuses' = IF wres.tag = "ok"
                   THEN [statuses EXCEPT ![wjob] = JobStateOf(wres)]
                   ELSE statuses
    /\ wpc' = "recv"
    /\ UNCHANGED <<chan, hpc, hjob, hret, wjob, wres, next_id, last_get, pipeVars, apiVars>>

\* the worker loop: the insert of Completed or Failed
WorkerFinish ==
    /\ wpc = "finish"
    /\ statuses' = [statuses EXCEPT ![wjob] = JobStateOf(wres)]
    /\ wpc' = "recv"
    /\ UNCHANGED <<chan, hpc, hjob, hret, wjob, wres, next_id, last_get, pipeVars, apiVars>>

\* JobQueue::get
Get(id) ==
    /\ last_get' = IF statuses[id] = Absent THEN NoJobInfo
                   ELSE [found |-> TRUE, id |-> id, state |-> statuses[id]]
    /\ last_get' # last_get
    /\ UNCHANGED <<statuses, chan, hpc, hjob, hret, wpc, wjob, wres, next_id, pipeVars, apiVars>>

\* get_job_status for a caller authenticated with this context: the handler
\* takes State and Path only, the context plays no part in its answer
get_job_status(context, id) == Get(id)

(***************************************************************************)
(* require_api_auth: API keys and the token-bucket rate limiter            *)
(***************************************************************************)
\* Time is counted in ticks, TicksPerSec to the second; token counts (f64 in
\* the program) are counted in units of 1/Scale token, so that with a rate
\* that is a multiple of half a token per second every refill is a whole
\* number of units and the arithmetic below is exact.
TicksPerSec == 2

Scale == 2 * TicksPerSec

\* the clock stops after MaxTime ticks
MaxTime == 4

\* number of requests that arrive in a behaviour
MaxRequests == 3

Clients == {"c1", "c2"}

\* integer ceiling of a / b for b > 0
CeilDiv(a, b) == IF a <= 0 THEN -((-a) \div b) ELSE (a + b - 1) \div b

\* TokenBuckets::from_env: RATE_LIMIT_PER_SEC must exceed 0 and
\* RATE_LIMIT_CAPACITY be at least 1.0.  capacity is held in units,
\* rate_per_sec in units per tick (twice the number of tokens per second).
TokenBuckets(capacity_halves, rate_halves) ==
    [capacity |-> capacity_halves * TicksPerSec, rate_per_sec |-> rate_halves]

LimiterConfigs ==
    { TokenBuckets(4, 2),      \* capacity 2,   1 token per second
      TokenBuckets(4, 1),      \* capacity 2,   half a token per second
      TokenBuckets(5, 2),      \* capacity 2.5, 1 token per second
      TokenBuckets(2, 4) }     \* capacity 1,   2 tokens per second

\* BucketState; NoBucket stands for an org the map does not hold
BucketState(tokens, last_refill) ==
    [present |-> TRUE, tokens |-> tokens, last_refill |-> last_refill]

NoBucket == [present |-> FALSE, tokens |-> 0, last_refill |-> 0]

\* Option<String>
Hdr(v) == [some |-> TRUE, v |-> v]
NoHdr == [some |-> FALSE, v |-> ""]

Headers(authorization, x_hermes_key) ==
    [authorization |-> authorization, x_hermes_key |-> x_hermes_key]

\* extract_api_key
extract_api_key(headers) ==
    LET raw == headers.authorization.v
    IN  IF headers.authorization.some /\ Len(raw) >= 7
           /\ ToLower(SubSeq(raw, 1, 6)) = "bearer"
        THEN Hdr(Trim(SubSeq(raw, 7, Len(raw))))
        ELSE LET key == Trim(headers.x_hermes_key.v)
             IN  IF headers.x_hermes_key.some /\ key # "" THEN Hdr(key) ELSE NoHdr

\* AuthContext; NoContext stands for None
AuthContext(org_id, api_key_id) ==
    [some |-> TRUE, org_id |-> org_id, api_key_id |-> api_key_id]

NoContext == [some |-> FALSE, org_id |-> None, api_key_id |-> None]

\* the key table load_keys_from_env builds from
\* DEMO_API_KEYS = "demo-org:demo-key,org-b:key-b"
OrgIds == {"demo-org", "org-b"}

\* AuthState::authenticate
authenticate(api_key) ==
    IF api_key = "demo-key" THEN AuthContext("demo-org", "key-01")
    ELSE IF api_key = "key-b" THEN AuthContext("org-b", "key-02")
    ELSE NoContext

\* the request headers the clients send
RequestHeaders ==
    { Headers(NoHdr, NoHdr),
      Headers(Hdr("Bearer demo-key"), NoHdr),
      Headers(Hdr("bEARER  key-b "), NoHdr),
      Headers(Hdr("Bearer nope"), NoHdr),
      Headers(NoHdr, Hdr(" demo-key ")),
      Headers(NoHdr, Hdr("  ")),
      Headers(Hdr("Basic abc"), Hdr("key-b")),
      Headers(Hdr("Bearer"), Hdr("demo-key")),
      Headers(Hdr("Bearer  "), Hdr("demo-key")),
      Headers(Hdr("Bearer nope"), Hdr("demo-key")) }

\* the second client always presents a key of the table
HeadersOf(c) ==
    IF c = "c1" THEN RequestHeaders
    ELSE {Headers(Hdr("Bearer demo-key"), NoHdr), Headers(Hdr("bEARER  key-b "), NoHdr)}

\* extract_api_key on each of these, worked out once
ExtractedKey == [headers \in RequestHeaders |-> extract_api_key(headers)]

\* the X-RateLimit-* and Retry-After headers of a response; -1: not set
RateHeaders(limit, remaining, reset, retry_after) ==
    [limit |-> limit, remaining |-> remaining, reset |-> reset,
     retry_after |-> retry_after]

NoRateHeaders == RateHeaders(-1, -1, -1, -1)

\* the outcome of consume.  retry_after (seconds, f64) is kept as the
\* deficit in units; it is deficit / (rate_per_sec * TicksPerSec) seconds.
RatePermit(capacity, tokens, rate_per_sec) ==
    [ok |-> TRUE, retry_after |-> 0, capacity |-> capacity, tokens |-> tokens,
     rate_per_sec |-> rate_per_sec]

RateExceeded(retry_after, capacity, tokens, rate_per_sec) ==
    [ok |-> FALSE, retry_after |-> retry_after, capacity |-> capacity,
     tokens |-> tokens, rate_per_sec |-> rate_per_sec]

NoDecision == RatePermit(0, 0, 0)

\* a refill that is not held at the capacity
refill_uncapped(state, t) ==
    IF t > state.last_refill
    THEN BucketState(state.tokens + (t - state.last_refill) * limiter.rate_per_sec, t)
    ELSE state

\* consume: the refill for the time elapsed since last_refill
refill(state, t) ==
    IF t > state.last_refill
    THEN BucketState(Min(state.tokens + (t - state.last_refill) * limiter.rate_per_sec,
                         limiter.capacity), t)
    ELSE state

\* consume: entry(org_id).or_insert(full bucket), then the refill
refilled(org_id, t) ==
    refill(IF buckets[org_id].present THEN buckets[org_id]
           ELSE BucketState(limiter.capacity, t), t)

\* a limiter that asks for more than one whole token
consume_above_one(org_id, t) ==
    LET state == refilled(org_id, t)
    IN  IF state.tokens > Scale
        THEN [bucket |-> BucketState(state.tokens - Scale, state.last_refill),
              decision |-> RatePermit(limiter.capacity, state.tokens - Scale,
                                      limiter.rate_per_sec)]
        ELSE [bucket |-> state,
              decision |-> RateExceeded(Max(Scale - state.tokens, 0), limiter.capacity,
                                        state.tokens, limiter.rate_per_sec)]

\* TokenBuckets::consume: the bucket it leaves and the decision it returns
consume(org_id, t) ==
    LET state == refilled(org_id, t)
    IN  IF state.tokens >= Scale
        THEN [bucket |-> BucketState(state.tokens - Scale, state.last_refill),
              decision |-> RatePermit(limiter.capacity, state.tokens - Scale,
                                      limiter.rate_per_sec)]
        ELSE [bucket |-> state,
              decision |-> RateExceeded(Max(Scale - state.tokens, 0), limiter.capacity,
                                        state.tokens, limiter.rate_per_sec)]

\* headers that report the tokens rounded up
permit_headers_rounded_up(permit) ==
    RateHeaders(permit.capacity \div Scale,
                CeilDiv(Max(permit.tokens, 0), Scale),
                Max(CeilDiv(permit.capacity - permit.tokens,
                            permit.rate_per_sec * TicksPerSec), 0),
                -1)

\* RatePermit::apply_headers
permit_apply_headers(permit) ==
    RateHeaders(permit.capacity \div Scale,
                Max(permit.tokens, 0) \div Scale,
                Max(CeilDiv(permit.capacity - permit.tokens,
                            permit.rate_per_sec * TicksPerSec), 0),
                -1)

\* RateExceeded::apply_headers
exceeded_apply_headers(exceeded) ==
    RateHeaders(exceeded.capacity \div Scale,
                0,
                Max(CeilDiv(exceeded.capacity - exceeded.tokens,
                            exceeded.rate_per_sec * TicksPerSec), 0),
                Max(CeilDiv(exceeded.retry_after,
                            exceeded.rate_per_sec * TicksPerSec), 0))

\* the response of the middleware; status 0: none yet
Response(status, error, headers, context) ==
    [status |-> status, error |-> error, headers |-> headers, context |-> context]

NoResponse == Response(0, None, NoRateHeaders, NoContext)

GateEntry(p, headers, context, decision, response) ==
    [pc |-> p, headers |-> headers, context |-> context, decision |-> decision,
     response |-> response]

\* history of a bucket: when it was last found full by consume, and the
\* requests admitted since
Burst(start, admitted) == [start |-> start, admitted |-> admitted]

\* AuthState::from_env: no bucket exists yet
GateStart ==
    /\ buckets = [o \in OrgIds |-> NoBucket]
    /\ now = 0
    /\ gate = [c \in Clients |->
                 GateEntry("idle", Headers(NoHdr, NoHdr), NoContext, NoDecision, NoResponse)]
    /\ burst = [o \in OrgIds |-> Burst(0, 0)]
    /\ arrived = 0

GateIdle ==
    /\ limiter = TokenBuckets(4, 2)
    /\ GateStart

\* require_api_auth up to the lock of the buckets: the key is extracted and
\* looked up; 401 without a key or with an unknown one
GateArrive(c, headers) ==
    /\ gate[c].pc \in {"idle", "done"}
    /\ arrived < MaxRequests
    /\ arrived' = arrived + 1
    /\ LET key == ExtractedKey[headers]
           context == IF key.some THEN authenticate(key.v) ELSE NoContext
       IN  gate' = [gate EXCEPT ![c] =
                IF ~key.some
                THEN GateEntry("done", headers, NoContext, NoDecision,
                               Response(401, "missing_api_key", NoRateHeaders, NoContext))
                ELSE IF ~context.some
                THEN GateEntry("done", headers, NoContext, NoDecision,
                               Response(401, "invalid_api_key", NoRateHeaders, NoContext))
                ELSE GateEntry("consume", headers, context, NoDecision, NoResponse)]
    /\ UNCHANGED <<limiter, buckets, now, burst, idemVars, hsufVars, pipeVars, jobVars>>

\* a middleware that charges the bucket for a request it rejects
GateConsume_charge_rejected(c) ==
    /\ gate[c].pc = "consume"
    /\ LET org_id == gate[c].context.org_id
           full == refilled(org_id, now).tokens = limiter.capacity
           out == consume(org_id, now)
           one == IF out.decision.ok THEN 1 ELSE 0
       IN  /\ buckets' = [buckets EXCEPT ![org_id] =
                            IF out.decision.ok THEN out.bucket
                            ELSE BucketState(0, out.bucket.last_refill)]
           /\ burst' = [burst EXCEPT ![org_id] =
                          IF full THEN Burst(now, one)
                          ELSE Burst(burst[org_id].start, burst[org_id].admitted + one)]
           /\ gate' = [gate EXCEPT ![c] =
                IF out.decision.ok
                THEN GateEntry("next", gate[c].headers, gate[c].context, out.decision,
                               NoResponse)
                ELSE GateEntry("done", gate[c].headers, gate[c].context, NoDecision,
                               Response(429, "rate_limited",
                                        exceeded_apply_headers(out.decision), NoContext))]
    /\ UNCHANGED <<limiter, now, arrived, idemVars, hsufVars, pipeVars, jobVars>>

\* a limiter that refills every bucket of the map when one org consumes
GateConsume_refill_all(c) ==
    /\ gate[c].pc = "consume"
    /\ LET org_id == gate[c].context.org_id
           full == refilled(org_id, now).tokens = limiter.capacity
           out == consume(org_id, now)
           one == IF out.decision.ok THEN 1 ELSE 0
       IN  /\ buckets' = [o \in OrgIds |->
                            IF o = org_id THEN out.bucket
                            ELSE IF buckets[o].present THEN refill(buckets[o], now)
                            ELSE buckets[o]]
           /\ burst' = [burst EXCEPT ![org_id] =
                          IF full THEN Burst(now, one)
                          ELSE Burst(burst[org_id].start, burst[org_id].admitted + one)]
           /\ gate' = [gate EXCEPT ![c] =
                IF out.decision.ok
                THEN GateEntry("next", gate[c].headers, gate[c].context, out.decision,
                               NoResponse)
                ELSE GateEntry("done", gate[c].headers, gate[c].context, NoDecision,
                               Response(429, "rate_limited",
                                        exceeded_apply_headers(out.decision), NoContext))]
    /\ UNCHANGED <<limiter, now, arrived, idemVars, hsufVars, pipeVars, jobVars>>

\* require_api_auth: limiter.consume(org_id) under the mutex; 429 with the
\* headers of RateExceeded when it refuses
GateConsume(c) ==
    /\ gate[c].pc = "consume"
    /\ LET org_id == gate[c].context.org_id
           full == refilled(org_id, now).tokens = limiter.capacity
           out == consume(org_id, now)
           one == IF out.decision.ok THEN 1 ELSE 0
       IN  /\ buckets' = [buckets EXCEPT ![org_id] = out.bucket]
           /\ burst' = [burst EXCEPT ![org_id] =
                          IF full THEN Burst(now, one)
                          ELSE Burst(burst[org_id].start, burst[org_id].admitted + one)]
           /\ gate' = [gate EXCEPT ![c] =
                IF out.decision.ok
                THEN GateEntry("next", gate[c].headers, gate[c].context, out.decision,
                               NoResponse)
                ELSE GateEntry("done", gate[c].headers, gate[c].context, NoDecision,
                               Response(429, "rate_limited",
                                        exceeded_apply_headers(out.decision), NoContext))]
    /\ UNCHANGED <<limiter, now, arrived, idemVars, hsufVars, pipeVars, jobVars>>

\* require_api_auth: next.run(request) with the context in the request's
\* extensions, then RatePermit::apply_headers on its response
GateRespond(c) ==
    /\ gate[c].pc = "next"
    /\ gate' = [gate EXCEPT ![c] =
            GateEntry("done", gate[c].headers, gate[c].context, NoDecision,
                      Response(200, None, permit_apply_headers(gate[c].decision),
                               gate[c].context))]
    /\ UNCHANGED <<limiter, buckets, now, burst, arrived, idemVars, hsufVars, pipeVars, jobVars>>

\* time passes; the history of a burst is dropped once 1/rate_per_sec
\* seconds have passed since its start
Tick ==
    /\ now < MaxTime
    /\ now' = now + 1
    /\ burst' = [o \in OrgIds |->
                   IF (now + 1 - burst[o].start) * limiter.rate_per_sec < Scale
                   THEN burst[o] ELSE Burst(0, 0)]
    /\ UNCHANGED <<limiter, buckets, gate, arrived, idemVars, hsufVars, pipeVars, jobVars>>

(***************************************************************************)
(* create_listing: the idempotency cache                                   *)
(***************************************************************************)
\* number of create_listing calls in a behaviour
MaxCalls == 3

IdemKeys == {"k1", "k2"}

\* the Idempotency-Key header values the clients send
KeyHeaders == {NoHdr, Hdr("k1"), Hdr(" k1 "), Hdr("k2"), Hdr("  ")}

\* create_listing: the header value trimmed, an empty one dropped
idempotency_key(header) ==
    IF header.some /\ Trim(header.v) # "" THEN Hdr(Trim(header.v)) ELSE NoHdr

\* What Pipeline::run returned to create_listing.  run numbers the
\* execution: it stands for what differs from one execution to the next in
\* a ListingResponse (the timestamp and elapsed_ms of every StageReport and
\* the generated listing ids).
Reply(ok, run) == [some |-> TRUE, ok |-> ok, run |-> run]

NoReply == [some |-> FALSE, ok |-> FALSE, run |-> 0]

\* a lookup that hands a connection failure back as its result
redis_get_failing(key) ==
    IF redis.up THEN redis.store[key] ELSE Reply(FALSE, 0)

\* idempotency::redis_get: None when the connection, the GET or the parse
\* fails
redis_get(key) ==
    IF redis.up THEN redis.store[key] ELSE NoReply

\* idempotency::redis_set: the entries after SET EX; nothing is written when
\* the connection or the SET fails
redis_set(key, response) ==
    IF redis.up THEN [redis.store EXCEPT ![key] = response] ELSE redis.store

\* a lookup of the in-process map that never finds an entry
idem_get_nothing(key) == NoReply

\* state.idempotency.lock().await.get(&key).cloned()
idem_get(key) == idem[key]

Call_(p, key, response, ran, prior) ==
    [pc |-> p, key |-> key, response |-> response, ran |-> ran, prior |-> prior]

IdleCall == Call_("idle", NoHdr, NoReply, FALSE, NoReply)

\* create_listing: Extension(context), the AuthContext require_api_auth put
\* into the request.  The first client holds the key of demo-org, the second
\* the key of org-b.
ClientContext(c) == IF c = "c1" THEN authenticate("demo-key") ELSE authenticate("key-b")

\* enqueue_listing_job: Extension(context), which enqueue_listing puts into
\* the Job.  The first handler serves a request of demo-org, the second one
\* of org-b.
HandlerContext(h) == IF h = "h1" THEN authenticate("demo-key") ELSE authenticate("key-b")

\* the calls with this key that have begun and not yet returned
InFlight(key) ==
    {c \in Clients : cl[c].pc \in {"lookup", "run", "store"} /\ cl[c].key = Hdr(key)}

IdemIdle ==
    /\ redis = [configured |-> FALSE, up |-> FALSE, store |-> [k \in IdemKeys |-> NoReply]]
    /\ idem = [k \in IdemKeys |-> NoReply]
    /\ cl = [c \in Clients |-> IdleCall]
    /\ hist = [calls |-> 0, runs |-> 0,
               begun |-> [k \in IdemKeys |-> 0],
               execs |-> [k \in IdemKeys |-> 0],
               returned |-> [k \in IdemKeys |-> {}],
               lost |-> [k \in IdemKeys |-> FALSE]]

\* create_listing: the Idempotency-Key header is read.  prior records the
\* response of the one earlier call with this key, when that call has
\* returned it and no other call with the key has begun.
CreateBegin(c, header) ==
    /\ cl[c].pc \in {"idle", "done"}
    /\ hist.calls < MaxCalls
    /\ LET key == idempotency_key(header)
       IN  IF key.some
           THEN /\ cl' = [cl EXCEPT ![c] =
                     Call_("lookup", key, NoReply, FALSE,
                           IF hist.begun[key.v] = 1 /\ InFlight(key.v) = {}
                              /\ hist.returned[key.v] # {}
                           THEN CHOOSE r \in hist.returned[key.v] : TRUE
                           ELSE NoReply)]
                /\ hist' = [hist EXCEPT !.calls = @ + 1, !.begun[key.v] = @ + 1]
           ELSE /\ cl' = [cl EXCEPT ![c] = Call_("run", NoHdr, NoReply, FALSE, NoReply)]
                /\ hist' = [hist EXCEPT !.calls = @ + 1]
    /\ UNCHANGED <<redis, idem, gateVars, hsufVars, pipeVars, jobVars>>

\* create_listing: redis_get when a Redis client is configured, otherwise
\* the lookup in the in-process map; a hit is returned at once
CreateLookup(c) ==
    /\ cl[c].pc = "lookup"
    /\ LET key == cl[c].key.v
           existing == IF redis.configured THEN redis_get(key) ELSE idem_get(key)
       IN  IF existing.some
           THEN /\ cl' = [cl EXCEPT ![c] = [@ EXCEPT !.pc = "done", !.response = existing]]
                /\ hist' = [hist EXCEPT !.returned[key] = @ \cup {existing}]
           ELSE /\ cl' = [cl EXCEPT ![c] = [@ EXCEPT !.pc = "run"]]
                /\ hist' = [hist EXCEPT !.lost[key] =
                               @ \/ (redis.configured /\ ~redis.up)]
    /\ UNCHANGED <<redis, idem, gateVars, hsufVars, pipeVars, jobVars>>

\* a handler that caches the outcome of the run whether or not it succeeded
CreateRun_store_failure(c) ==
    /\ cl[c].pc = "run"
    /\ \E ok \in BOOLEAN :
         LET response == Reply(ok, hist.runs + 1)
         IN  /\ cl' = [cl EXCEPT ![c] =
                   [@ EXCEPT !.pc = IF cl[c].key.some THEN "store" ELSE "done",
                             !.response = response, !.ran = TRUE]]
             /\ hist' = IF cl[c].key.some
                        THEN [hist EXCEPT !.runs = @ + 1, !.execs[cl[c].key.v] = @ + 1]
                        ELSE [hist EXCEPT !.runs = @ + 1]
    /\ UNCHANGED <<redis, idem, gateVars, hsufVars, pipeVars, jobVars>>

\* create_listing: state.pipeline.run(payload, Some(context)).await?
CreateRun(c) ==
    /\ cl[c].pc = "run"
    /\ \E ok \in BOOLEAN :
         LET response == Reply(ok, hist.runs + 1)
         IN  /\ cl' = [cl EXCEPT ![c] =
                   [@ EXCEPT !.pc = IF ok /\ cl[c].key.some THEN "store" ELSE "done",
                             !.response = response, !.ran = TRUE]]
             /\ hist' = IF cl[c].key.some
                        THEN [hist EXCEPT !.runs = @ + 1, !.execs[cl[c].key.v] = @ + 1]
                        ELSE [hist EXCEPT !.runs = @ + 1]
    /\ UNCHANGED <<redis, idem, gateVars, hsufVars, pipeVars, jobVars>>

\* create_listing: redis_set, or the insert into the in-process map, and
\* the return of the response
CreateStore(c) ==
    /\ cl[c].pc = "store"
    /\ LET key == cl[c].key.v
       IN  /\ IF redis.configured
              THEN /\ redis' = [redis EXCEPT !.store = redis_set(key, cl[c].response)]
                   /\ idem' = idem
              ELSE /\ idem' = [idem EXCEPT ![key] = cl[c].response]
                   /\ redis' = redis
           /\ hist' = [hist EXCEPT !.returned[key] = @ \cup {cl[c].response},
                                   !.lost[key] = @ \/ (redis.configured /\ ~redis.up)]
    /\ cl' = [cl EXCEPT ![c] = [@ EXCEPT !.pc = "done"]]
    /\ UNCHANGED <<gateVars, hsufVars, pipeVars, jobVars>>

\* the Redis server becomes unreachable, or reachable again
RedisFlip ==
    /\ redis.configured
    /\ redis' = [redis EXCEPT !.up = ~@]
    /\ UNCHANGED <<idem, cl, hist, gateVars, hsufVars, pipeVars, jobVars>>

\* an entry outlives IDEMPOTENCY_TTL_SECS and Redis drops it
RedisExpire(key) ==
    /\ redis.store[key].some
    /\ redis' = [redis EXCEPT !.store[key] = NoReply]
    /\ hist' = [hist EXCEPT !.lost[key] = TRUE]
    /\ UNCHANGED <<idem, cl, gateVars, hsufVars, pipeVars, jobVars>>

(***************************************************************************)
(* hsuf::transform: the aspects of a listing                               *)
(***************************************************************************)
RECURSIVE SplitAt(_, _, _, _, _)
SplitAt(s, i, cur, acc, delims) ==
    IF i > Len(s) THEN Append(acc, cur)
    ELSE IF CharAt(s, i) \in delims THEN SplitAt(s, i + 1, "", Append(acc, cur), delims)
    ELSE SplitAt(s, i + 1, cur \o CharAt(s, i), acc, delims)

RECURSIVE Join(_, _)
Join(words, sep) ==
    IF words = <<>> THEN ""
    ELSE IF Len(words) = 1 THEN words[1]
    ELSE words[1] \o sep \o Join(Tail(words), sep)

RECURSIVE ToUpper(_)
ToUpper(s) ==
    IF Len(s) = 0 THEN ""
    ELSE LET c == CharAt(s, 1)
             i == IndexOf(LowerCase, c)
         IN  (IF i = 0 THEN c ELSE CharAt(UpperCase, i)) \o ToUpper(SubSeq(s, 2, Len(s)))

\* split_field
split_field(value) ==
    IF value = None THEN <<>>
    ELSE SelectSeq(MapTrim(SplitAt(value, 1, "", <<>>, {"/", "|", ",", "&", "\n"})),
                   NonEmptyStr)

\* normalize_text: split_whitespace, join(" "), to_lowercase
normalize_text(value) ==
    ToLower(Join(SelectSeq(SplitAt(value, 1, "", <<>>, {" ", "\n", "\t"}), NonEmptyStr), " "))

\* extract_brand
extract_brand(prod) == IF prod.brand = None THEN <<>> ELSE <<prod.brand>>

\* hsuf_values_for_aspect
hsuf_values_for_aspect(prod, aspect) ==
    LET normalized == ToLower(Trim(aspect.localizedAspectName)) IN
    CASE normalized \in {"brand", "manufacturer"} -> extract_brand(prod)
      [] normalized \in {"color", "main color"} -> split_field(prod.color)
      [] normalized = "mpn" -> IF prod.mpn = None THEN <<>> ELSE <<prod.mpn>>
      [] normalized = "sku" -> IF prod.sku = None THEN <<>> ELSE <<prod.sku>>
      [] OTHER -> <<>>

\* AspectMode::from_raw
AspectModeFromRaw(value) ==
    CASE ToUpper(value) = "FREE_TEXT" -> "FreeText"
      [] ToUpper(value) = "SELECTION_ONLY" -> "SelectionOnly"
      [] OTHER -> None

\* ItemCardinality::from_raw
ItemCardinalityFromRaw(value) ==
    IF ToUpper(IF value = None THEN "" ELSE value) = "MULTI" THEN "Multi" ELSE "Single"

\* the HashMap `allowed` of apply_constraints: the key is the normalized
\* text, the value the trimmed text; a later insert replaces an earlier one
AllowedValue(aspectValues, key) ==
    LET hits == { i \in 1..Len(aspectValues) : normalize_text(aspectValues[i]) = key }
    IN  IF hits = {} THEN <<>>
        ELSE <<Trim(aspectValues[CHOOSE i \in hits : \A j \in hits : j <= i])>>

RECURSIVE Matched(_, _)
Matched(values, aspectValues) ==
    IF values = <<>> THEN <<>>
    ELSE AllowedValue(aspectValues, normalize_text(Head(values)))
         \o Matched(Tail(values), aspectValues)

\* an apply_constraints that treats every aspect as free text
apply_constraints_free_text(values, aspect) == values

\* apply_constraints
apply_constraints(values, aspect) ==
    IF ~aspect.aspectConstraint.some THEN values
    ELSE IF aspect.aspectConstraint.aspectMode # None
            /\ AspectModeFromRaw(aspect.aspectConstraint.aspectMode) = "SelectionOnly"
    THEN Matched(values, aspect.aspectValues)
    ELSE values

\* BTreeMap::insert
MapInsert(map, key, value) ==
    [k \in DOMAIN map \cup {key} |-> IF k = key THEN value ELSE map[k]]

\* transform::build_aspects: the map from aspect name to the values stored
RECURSIVE transform_build_aspects_from(_, _, _)
transform_build_aspects_from(prod, aspects, values) ==
    IF aspects = <<>> THEN values
    ELSE LET aspect == Head(aspects)
             name == Trim(aspect.localizedAspectName)
             candidates == hsuf_values_for_aspect(prod, aspect)
             filtered == apply_constraints(candidates, aspect)
             cardinality ==
                ItemCardinalityFromRaw(IF aspect.aspectConstraint.some
                                       THEN aspect.aspectConstraint.itemToAspectCardinality
                                       ELSE None)
             stored == IF cardinality = "Multi" THEN filtered ELSE <<filtered[1]>>
         IN  IF name = "" \/ candidates = <<>> \/ filtered = <<>>
             THEN transform_build_aspects_from(prod, Tail(aspects), values)
             ELSE transform_build_aspects_from(prod, Tail(aspects),
                                               MapInsert(values, name, stored))

transform_build_aspects(prod, taxonomy) ==
    transform_build_aspects_from(prod, taxonomy, <<>>)

(***************************************************************************)
(* The pure stages, called one at a time                                   *)
(***************************************************************************)
\* what an LLM or a product override names as brand and as colour
BrandInputs == {None, "Hermes Labs", "hermes   labs", " DEMO LABS ", "Acme"}
ColorInputs ==
    {None, "Black", " BLACK / sand", "Purple", "purple|White,  black", "dark   blue & Acme"}

\* a TaxonomyResponse as the marketplace's taxonomy API words it: a padded
\* name, values that differ in case and spacing only, a single-valued
\* aspect, a free-text aspect and one without a constraint
GeneralTaxonomy ==
    << [localizedAspectName |-> " Main Color ",
        aspectValues |-> <<"Black", " Dark  Blue ", "BLACK", "Sand">>,
        aspectConstraint |-> [some |-> TRUE, aspectMode |-> "selection_only",
                              itemToAspectCardinality |-> "SINGLE"]],
       [localizedAspectName |-> "Manufacturer",
        aspectValues |-> <<"Hermes Labs">>,
        aspectConstraint |-> [some |-> TRUE, aspectMode |-> "FREE_TEXT",
                              itemToAspectCardinality |-> "MULTI"]],
       [localizedAspectName |-> "Brand",
        aspectValues |-> <<"Demo Labs">>,
        aspectConstraint |-> [some |-> FALSE, aspectMode |-> None,
                              itemToAspectCardinality |-> None]] >>

\* the labels a selection can carry: those of the pool and of the overrides
CategoryLabels ==
    { CATEGORY_POOL[i].label : i \in 1..Len(CATEGORY_POOL) }
    \cup { x.label : x \in OverrideCategories }

HsufIdle == hsuf = [op |-> "none"]

\* build_listing_draft, the aspects: build_aspects(product, ctx.taxonomy)
TransformAspects ==
    /\ hsuf.op = "none"
    /\ \E brand \in BrandInputs, color \in ColorInputs,
          taxonomy \in { ebay_aspects(build_aspects(label)) : label \in CategoryLabels }
                       \cup {GeneralTaxonomy} :
          LET prod == [brand |-> brand, color |-> color, mpn |-> None, sku |-> "S1"]
          IN  hsuf' = [op |-> "build_aspects", product |-> prod, taxonomy |-> taxonomy,
                       aspects |-> transform_build_aspects(prod, taxonomy)]
    /\ UNCHANGED <<gateVars, idemVars, pipeVars, jobVars>>

RECURSIVE Repeat(_, _)
Repeat(s, n) ==
    IF n = 0 THEN ""
    ELSE LET half == Repeat(s, n \div 2)
         IN  half \o half \o (IF n % 2 = 1 THEN s ELSE "")

\* a text one character longer than a description may be
LongText == Repeat("x", DESCRIPTION_LIMIT + 1)

\* product names: short, exactly at the limit, and longer with blanks where
\* the cut falls
PlanNames ==
    { "Sneaker",
      Repeat("n", TITLE_LIMIT),
      Repeat("n", TITLE_LIMIT - 5) \o "  " \o Repeat("m", 10) }

PlanDescriptions == {None, "Soft leather\nsecond line", LongText}

\* the products build_listing is given: what the LLM or an override wrote
PlanProducts ==
    [name : PlanNames, image : {<<"https://cdn/x.jpg">>}, price : {"19.99"},
     brand : {None, "Acme"}, color : {None}, material : {None},
     description : PlanDescriptions]

\* stages::build_listing on a product, with each answer of the LLM
BuildListingPlan ==
    /\ hsuf.op = "none"
    /\ \E prod \in PlanProducts, chat \in LlmChatReplies \cup {LongText} :
          LET sel == CATEGORY_POOL[1]
              cfg == resolve_ebay_config(SampleRequest, NoOrgConfig).value
          IN  hsuf' = [op |-> "build_listing", product |-> prod, chat |-> chat,
                       outcome |-> build_listing(SampleRequest, prod,
                                                 fetch_taxonomy(sel).value,
                                                 prepare_conditions(sel).value,
                                                 chat, cfg)]
    /\ UNCHANGED <<gateVars, idemVars, pipeVars, jobVars>>

\* the labels prepare_conditions is asked about: those a selection can
\* carry and labels that name the keywords in other spellings
ConditionLabels ==
    CategoryLabels
    \cup {"", "Books", "SHOES", "Snowshoe", "Vintage COLLECTIBLE cards",
          "Collectibles & Shoe Care"}

\* stages::prepare_conditions on a selection with this label
PrepareConditionsFor ==
    /\ hsuf.op = "none"
    /\ \E label \in ConditionLabels :
          hsuf' = [op |-> "prepare_conditions", label |-> label,
                   outcome |-> prepare_conditions([NoSelection EXCEPT !.label = label])]
    /\ UNCHANGED <<gateVars, idemVars, pipeVars, jobVars>>

(***************************************************************************)
(* Specifications                                                          *)
(***************************************************************************)
Init == PipeInit /\ JobsInit /\ GateIdle /\ IdemIdle /\ HsufIdle

Next ==
    \/ StartRun
    \/ Return
    \/ LookupOrgConfig
    \/ ResolveImages
    \/ SelectCategory
    \/ FetchTaxonomy
    \/ AcquireUserToken
    \/ PrepareConditions
    \/ ExtractProduct
    \/ BuildListing
    \/ AfterBuild
    \/ PushInventory
    \/ PoCreate
    \/ PoLookup
    \/ PoUpdate
    \/ PoWithdraw
    \/ PoUpdateRetry
    \/ PoPublish

Spec == Init /\ [][Next]_vars

\* the job queue of a process built with the first pipeline configuration
InitJobs ==
    /\ PipeInit
    /\ pipe = [ebay_network_enabled |-> FALSE, ebay_refresh_token |-> FALSE,
               supabase |-> FALSE]
    /\ faithful
    /\ JobsInit
    /\ GateIdle
    /\ IdemIdle
    /\ HsufIdle

NextJobs ==
    \/ \E h \in Handlers : EnqueueInsert(h)
    \/ \E h \in Handlers : EnqueueSend(h)
    \/ \E h \in Handlers : EnqueueResume(h)
    \/ WorkerRecv
    \/ WorkerMarkRunning
    \/ WorkerRun
    \/ WorkerFinish
    \/ \E id \in JobIds : Get(id)

SpecJobs == InitJobs /\ [][NextJobs]_vars

\* requests passing through the middleware of a process started with one of
\* the limiter configurations
InitGate ==
    /\ PipeInit
    /\ pipe = [ebay_network_enabled |-> FALSE, ebay_refresh_token |-> FALSE,
               supabase |-> FALSE]
    /\ faithful
    /\ JobsInit
    /\ IdemIdle
    /\ HsufIdle
    /\ limiter \in LimiterConfigs
    /\ GateStart

NextGate ==
    \/ \E c \in Clients : \E headers \in HeadersOf(c) : GateArrive(c, headers)
    \/ \E c \in Clients : GateConsume(c)
    \/ \E c \in Clients : GateRespond(c)
    \/ Tick

SpecGate == InitGate /\ [][NextGate]_vars

\* create_listing calls of a process started with or without REDIS_URL
InitIdem ==
    /\ PipeInit
    /\ pipe = [ebay_network_enabled |-> FALSE, ebay_refresh_token |-> FALSE,
               supabase |-> FALSE]
    /\ faithful
    /\ JobsInit
    /\ GateIdle
    /\ HsufIdle
    /\ \E configured \in BOOLEAN :
          redis = [configured |-> configured, up |-> configured,
                   store |-> [k \in IdemKeys |-> NoReply]]
    /\ idem = [k \in IdemKeys |-> NoReply]
    /\ cl = [c \in Clients |-> IdleCall]
    /\ hist = [calls |-> 0, runs |-> 0,
               begun |-> [k \in IdemKeys |-> 0],
               execs |-> [k \in IdemKeys |-> 0],
               returned |-> [k \in IdemKeys |-> {}],
               lost |-> [k \in IdemKeys |-> FALSE]]

NextIdem ==
    \/ \E c \in Clients, header \in KeyHeaders : CreateBegin(c, header)
    \/ \E c \in Clients : CreateLookup(c)
    \/ \E c \in Clients : CreateRun(c)
    \/ \E c \in Clients : CreateStore(c)
    \/ RedisFlip
    \/ \E key \in IdemKeys : RedisExpire(key)

SpecIdem == InitIdem /\ [][NextIdem]_vars

\* the caller has taken what the stage returned
HsufReturn ==
    /\ hsuf.op # "none"
    /\ hsuf' = [op |-> "none"]
    /\ UNCHANGED <<gateVars, idemVars, pipeVars, jobVars>>

\* the stages that read nothing but their arguments, each called with the
\* inputs a run can hand it
InitHsuf ==
    /\ PipeInit
    /\ pipe = [ebay_network_enabled |-> FALSE, ebay_refresh_token |-> FALSE,
               supabase |-> FALSE]
    /\ faithful
    /\ JobsInit
    /\ GateIdle
    /\ IdemIdle
    /\ HsufIdle

NextHsuf ==
    \/ TransformAspects
    \/ BuildListingPlan
    \/ PrepareConditionsFor
    \/ HsufReturn

SpecHsuf == InitHsuf /\ [][NextHsuf]_vars

\* the worker is one spawned task that tokio keeps polling, and every
\* pipeline run returns: each step of the worker loop that stays possible is
\* eventually taken.  Request handlers and lookups are under no obligation.
FairSpecJobs ==
    /\ SpecJobs
    /\ WF_vars(WorkerRecv)
    /\ WF_vars(WorkerMarkRunning)
    /\ WF_vars(WorkerRun)
    /\ WF_vars(WorkerFinish)


(***************************************************************************)
(* Properties of Pipeline::run                                             *)
(***************************************************************************)
Names(reports) == [i \in 1..Len(reports) |-> reports[i].name]

IsPrefix(a, b) == Len(a) <= Len(b) /\ a = SubSeq(b, 1, Len(a))

StageIndex(name) == CHOOSE i \in 1..Len(StageNames) : StageNames[i] = name

IsStageName(name) == \E i \in 1..Len(StageNames) : StageNames[i] = name

Finished == pc = "done"

\* the request carries no overrides and resolve_images accepts its images
PlainValidRequest == ~req.overrides.some /\ resolve_images(req).ok

\* C1, as the specification words it: every run of a request without
\* overrides and with at least one valid image ends with the nine stage
\* reports in the canonical order.
C1_AllNine ==
    (Finished /\ PlainValidRequest) => Names(stages) = StageNames

\* C1, amended: for a request without overrides and with at least one valid
\* image, a successful live run reports exactly the nine stages in order, a
\* successful dry run the first seven, and a failed run a proper prefix.
C1_NineWhenLiveAndOk ==
    (Finished /\ PlainValidRequest) =>
        /\ (result.tag = "ok" /\ ~req.dry_run) =>
                Names(stages) = StageNames /\ Names(result.stages) = StageNames
        /\ (result.tag = "ok" /\ req.dry_run) => Names(stages) = SubSeq(StageNames, 1, 7)
        /\ result.tag = "err" =>
                Len(stages) < Len(StageNames) /\ IsPrefix(Names(stages), StageNames)

C1_Witness ==
    /\ Finished /\ PlainValidRequest /\ ~req.dry_run
    /\ result.tag = "ok"
    /\ ebay_token # None
    /\ Len(result.stages) = 9

\* C2: a dry run whose first seven stages succeeded returns right after
\* build_listing: it reports exactly the first seven stages, its listing id
\* starts with PREVIEW-, and it reached neither push_inventory nor
\* publish_offer.
C2_DryRunStopsAtBuild ==
    /\ req.dry_run => Len(stages) <= 7 /\ pc \notin {"push_inventory", "publish_offer"}
    /\ (Finished /\ req.dry_run /\ Len(stages) = 7) =>
            /\ result.tag = "ok"
            /\ Names(result.stages) = SubSeq(StageNames, 1, 7)
            /\ StartsWith(result.listing_id, "PREVIEW-")

C2_Witness ==
    /\ Finished /\ req.dry_run /\ result.tag = "ok"
    /\ Len(result.stages) = 7
    /\ pipe.ebay_network_enabled

\* C3: at every point of a run, with or without overrides, the names of the
\* stage reports are a prefix of the canonical nine-stage sequence (so they
\* are in execution order and none appears twice).
C3_ReportsArePrefix ==
    /\ IsPrefix(Names(stages), StageNames)
    /\ IsPrefix(Names(result.stages), StageNames)
    /\ \A i, j \in 1..Len(stages) : stages[i].name = stages[j].name => i = j

C3_Witness ==
    /\ Finished
    /\ req.overrides.some /\ req.overrides.resolved_images.some
    /\ req.overrides.category.some /\ req.overrides.product.some
    /\ Len(stages) = 9

\* C4: a run that returned an error has stopped at the failing stage: the
\* reports are those of the stages before it, no report of the failing or of
\* a later stage exists, and the caller holds the error alone (stage, kind,
\* detail), with no stage report and no listing id.
C4_FailureAborts ==
    result.tag = "err" =>
        /\ Finished
        /\ result.stages = <<>>
        /\ result.listing_id = None
        /\ result.err.kind \in {"InvalidInput", "Internal"}
        /\ IsStageName(result.err.stage) =>
                Names(stages) = SubSeq(StageNames, 1, StageIndex(result.err.stage) - 1)

C4_Witness ==
    /\ result.tag = "err"
    /\ result.err.stage = "publish_offer"
    /\ Len(stages) = 8
    /\ result.stages = <<>>


(***************************************************************************)
(* Properties of publish_offer and of the reconciliation protocol          *)
(***************************************************************************)
InPublish ==
    pc \in {"publish_offer", "po_lookup", "po_update", "po_withdraw",
            "po_update_retry", "po_publish"}

\* the calls of the run that the publish_offer stage issued
OfferOps ==
    {"create_offer", "get_offers_by_sku", "update_offer", "withdraw_offer", "publish_offer"}

OfferCalls == { i \in 1..Len(calls) : calls[i].op \in OfferOps }

\* the calls that act on an existing offer
ReconcileCalls ==
    { i \in 1..Len(calls) : calls[i].op \in {"update_offer", "withdraw_offer", "publish_offer"} }

PublishSucceeded ==
    /\ result.tag = "ok"
    /\ Len(stages) = 9
    /\ result.listing_id # None /\ Len(result.listing_id) > 0

PublishFailedAs(kind) ==
    /\ result.tag = "err"
    /\ result.err.stage = "publish_offer"
    /\ result.err.kind = kind
    /\ Len(stages) = 8

\* the number of marketplace calls the stage can still issue
Remaining(position) ==
    CASE position = "publish_offer" -> 6
      [] position = "po_lookup" -> 5
      [] position = "po_update" -> 4
      [] position = "po_withdraw" -> 3
      [] position = "po_update_retry" -> 2
      [] position = "po_publish" -> 1
      [] OTHER -> 0

\* C5: whatever the marketplace answers to create, lookup, update, withdraw
\* and publish, the publish_offer stage ends: every step inside the stage
\* lowers the number of calls it can still issue, at most six are issued,
\* a step is possible as long as the stage has not ended, and the stage
\* ends with exactly one of: success with a listing id, an invalid-input
\* error, an internal error.
C5_PublishTerminates ==
    /\ [](Cardinality(OfferCalls) <= 6)
    /\ [](InPublish => ENABLED (PoCreate \/ PoLookup \/ PoUpdate \/ PoWithdraw
                                 \/ PoUpdateRetry \/ PoPublish))
    /\ []((Finished /\ Len(stages) >= 8) =>
            Cardinality({ k \in {"ok", "InvalidInput", "Internal"} :
                            IF k = "ok" THEN PublishSucceeded ELSE PublishFailedAs(k) }) = 1)
    /\ [][InPublish => /\ Remaining(pc') < Remaining(pc)
                       /\ (pc' = "done" \/ InPublish')
                       /\ (pc' = "done" => result'.tag \in {"ok", "err"})]_vars

C5_Witness ==
    /\ Finished /\ PublishSucceeded
    /\ \E i \in OfferCalls : calls[i].op = "withdraw_offer"
    /\ Cardinality(OfferCalls) = 6

\* the published offers the marketplace holds for the run's (SKU, marketplace)
PublishedFor(create) ==
    { i \in 1..Len(offers) :
        /\ offers[i].sku = create.sku
        /\ offers[i].marketplaceId = create.marketplace_id
        /\ offers[i].published }

\* C6: against a marketplace that answers create with 409 whenever the SKU
\* has an offer, every successful live run leaves exactly one published
\* offer for the request's (SKU, marketplace), and it is the offer the run
\* reports as offer_id.
C6_SinglePublishedOffer ==
    (faithful /\ Finished /\ result.tag = "ok" /\ ebay_token # None) =>
        LET create == build_offer_requests(listing).create IN
        /\ Cardinality(PublishedFor(create)) = 1
        /\ \A i \in PublishedFor(create) :
                offers[i].offerId = stages[9].output.offer_id

\* the offers of a list that belong to a marketplace, in the list's order
RECURSIVE OfMarketplace(_, _)
OfMarketplace(list, marketplace_id) ==
    IF list = <<>> THEN <<>>
    ELSE (IF Head(list).marketplaceId = marketplace_id THEN <<Head(list)>> ELSE <<>>)
         \o OfMarketplace(Tail(list), marketplace_id)

\* the offer the protocol is to pick from a non-empty list
ExpectedOffer(list, marketplace_id) ==
    IF OfMarketplace(list, marketplace_id) # <<>>
    THEN Head(OfMarketplace(list, marketplace_id))
    ELSE Head(list)

\* create answered 409 and the lookup answered a non-empty list
Reconciling == po.lookup # <<>>

\* C7, as the specification words it: after a 409 and a non-empty lookup,
\* update and publish are applied to the id of the first offer of the
\* request's marketplace, else of the first offer; a successful run reports
\* that id as offer_id and returns the listing id publish returned.
C7_PicksAndPublishes ==
    Reconciling =>
        LET offer == ExpectedOffer(po.lookup, build_offer_requests(listing).create.marketplace_id)
        IN  /\ \A i \in ReconcileCalls : calls[i].target = offer.offerId
            /\ Finished => \E i \in ReconcileCalls :
                                calls[i].op = "update_offer" /\ calls[i].target = offer.offerId
            /\ (Finished /\ result.tag = "ok") =>
                    /\ stages[9].output.offer_id = offer.offerId
                    /\ result.listing_id = po.published

\* C7, amended: after a 409 and a non-empty lookup the protocol picks the
\* first offer of the request's marketplace, else the first offer.  When that
\* offer carries an id, update, withdraw and publish are applied to that id
\* only, a successful run reports it as offer_id, and the listing id is the
\* one publish returned, or a generated HER- id when publish returned an
\* empty one.  When that offer carries no id, the stage fails with an
\* Internal error and issues no update, withdraw or publish.
C7_PicksAndPublishesOrFallsBack ==
    Reconciling =>
        LET offer == ExpectedOffer(po.lookup, build_offer_requests(listing).create.marketplace_id)
        IN  /\ po.candidate = offer.offerId
            /\ \A i \in ReconcileCalls : calls[i].target = offer.offerId
            /\ offer.offerId = None =>
                    ReconcileCalls = {} /\ Finished /\ PublishFailedAs("Internal")
            /\ (offer.offerId # None /\ Finished) =>
                    \E i \in ReconcileCalls :
                        calls[i].op = "update_offer" /\ calls[i].target = offer.offerId
            /\ (Finished /\ result.tag = "ok") =>
                    /\ stages[9].output.offer_id = offer.offerId
                    /\ calls[Len(calls)] = Call("publish_offer", offer.offerId, "ok")
                    /\ result.listing_id = IF po.published = "" THEN fallback_listing_id
                                           ELSE po.published
                    /\ stages[9].output.listing_id = result.listing_id

C7_Witness ==
    /\ Finished /\ result.tag = "ok"
    /\ po.lookup = <<OfferSummary("O7", "EBAY_GB"), OfferSummary("O8", "EBAY_US")>>
    /\ build_offer_requests(listing).create.marketplace_id = "EBAY_US"
    /\ stages[9].output.offer_id = "O8"
    /\ result.listing_id = "L1"

\* the lookup answered, and its answer holds no offer id to reconcile with
NothingToReconcile ==
    /\ \E i \in 1..Len(calls) : calls[i] = Call("get_offers_by_sku", listing.sku, "ok")
    /\ \/ po.lookup = <<>>
       \/ ExpectedOffer(po.lookup,
                        build_offer_requests(listing).create.marketplace_id).offerId = None

\* C8: when create answers 409 and the lookup yields no offer to reconcile
\* with, the stage fails with an Internal error tagged publish_offer and no
\* update, withdraw or publish call is issued.
C8_NoOfferIsInternal ==
    NothingToReconcile =>
        /\ Finished
        /\ PublishFailedAs("Internal")
        /\ ReconcileCalls = {}
        /\ calls[Len(calls)].op = "get_offers_by_sku"

C8_Witness ==
    /\ NothingToReconcile
    /\ po.lookup = <<>>
    /\ calls[Len(calls) - 1] = Call("create_offer", listing.sku, "409")
    /\ PublishFailedAs("Internal")


(***************************************************************************)
(* Properties of the job queue                                             *)
(***************************************************************************)
\* the moves of a job's status the specification allows
Forward(before, after) ==
    \/ before.state = "Absent" /\ after = Queued
    \/ before.state = "Queued" /\ after = Running
    \/ before.state = "Running" /\ after.state \in {"Completed", "Failed"}

\* C9: under every interleaving of enqueue, the worker and status lookups,
\* the status of a job changes only along Queued -> Running -> (Completed |
\* Failed): it never goes back, never skips Running and never leaves
\* Completed or Failed; a lookup reports the status the map holds.
C9_StatusMovesForward ==
    [][/\ \A id \in JobIds :
            statuses'[id] # statuses[id] => Forward(statuses[id], statuses'[id])
       /\ (last_get' # last_get /\ last_get'.found) =>
            last_get'.state = statuses[last_get'.id]]_vars

C9_Witness ==
    /\ \E id \in JobIds : statuses[id].state = "Completed"
    /\ \E id \in JobIds : statuses[id].state = "Failed"
    /\ \E id \in JobIds : statuses[id].state = "Queued"
    /\ last_get.found /\ last_get.state.state = "Running"

\* C10: enqueue_listing never suspends the request handler on the channel:
\* no handler is ever left waiting inside the send, and a handler that finds
\* the channel holding QUEUE_CAPACITY jobs returns queue_send_failed.
C10_EnqueueNeverBlocks ==
    \A h \in Handlers :
        /\ hpc[h] # "send_wait"
        /\ (hpc[h] = "done" /\ hret[h].tag = "ok") =>
                \E id \in JobIds : hret[h].id = id /\ statuses[id] # Absent

\* the job ids enqueue_listing has handed back to a request handler
Accepted == {hret[h].id : h \in {k \in Handlers : hret[k].tag = "ok"}}

\* C11: with a worker that is scheduled fairly and pipeline runs that
\* return, every job whose id enqueue_listing handed back is eventually
\* received, run and recorded as Completed or Failed; the record written at
\* the end of a run carries the listing id of the response, or the detail
\* and the stage of the error.
C11_AcceptedJobFinishes ==
    /\ \A id \in JobIds :
          (id \in Accepted) ~> (statuses[id].state \in {"Completed", "Failed"})
    /\ [][(wpc = "finish" /\ wpc' = "recv") =>
            /\ statuses[wjob] = Running
            /\ IF wres.tag = "ok"
               THEN /\ statuses'[wjob].state = "Completed"
                    /\ statuses'[wjob].listing_id = wres.listing_id
               ELSE /\ statuses'[wjob].state = "Failed"
                    /\ statuses'[wjob].error = wres.err.detail
                    /\ statuses'[wjob].stage = wres.err.stage]_vars

C11_Witness ==
    /\ \E id \in Accepted : statuses[id].state = "Completed"
    /\ \E id \in Accepted : statuses[id].state = "Failed"
    /\ next_id = MaxJobs

(***************************************************************************)
(* Properties of the rate limiter and of authentication                    *)
(***************************************************************************)
\* C12: under every interleaving of requests and of the clock, the token
\* count of every bucket stays between 0 and the capacity: the count the map
\* holds, the count after the refill inside consume, and the count a
\* decision reports.
C12_TokensWithinCapacity ==
    /\ \A o \in OrgIds :
         /\ buckets[o].present =>
              /\ 0 <= buckets[o].tokens
              /\ buckets[o].tokens <= limiter.capacity
              /\ buckets[o].last_refill <= now
         /\ 0 <= refilled(o, now).tokens
         /\ refilled(o, now).tokens <= limiter.capacity
         /\ 0 <= consume(o, now).bucket.tokens
         /\ consume(o, now).bucket.tokens <= limiter.capacity
    /\ \A c \in Clients :
         gate[c].pc = "next" =>
            /\ 0 <= gate[c].decision.tokens
            /\ gate[c].decision.tokens <= limiter.capacity - Scale

\* two requests of one org wait for the bucket, which an earlier request
\* drained and which the time elapsed since would fill beyond the capacity
C12_Witness ==
    \E o \in OrgIds :
        /\ buckets[o].present
        /\ buckets[o].tokens < Scale
        /\ buckets[o].tokens + (now - buckets[o].last_refill) * limiter.rate_per_sec
              > limiter.capacity
        /\ \A c \in Clients : gate[c].pc = "consume" /\ gate[c].context.org_id = o

\* the step in which request c passes through consume
ConsumeStep(c) == gate[c].pc = "consume" /\ gate'[c].pc # "consume"

\* the bucket of org o is found full by the consume that starts now
FoundFull(o) == refilled(o, now).tokens = limiter.capacity

\* requests admitted from the bucket of org o since it was last found full,
\* when that was less than 1/rate_per_sec seconds ago; -1 otherwise
AdmittedInBurst(o) ==
    IF FoundFull(o) THEN 0
    ELSE IF (now - burst[o].start) * limiter.rate_per_sec < Scale
    THEN burst[o].admitted
    ELSE -1

\* a consume that admits while a whole token per request of the burst is left
BurstAdmits(c) ==
    LET o == gate[c].context.org_id
        n == AdmittedInBurst(o)
    IN  (n >= 0 /\ (n + 1) * Scale <= limiter.capacity) => gate'[c].pc = "next"

\* C13 as stated: starting from a full bucket of capacity C and rate R, the
\* first n <= C requests inside a window shorter than 1/R seconds are all
\* admitted, and the (C+1)-th request inside that window is answered 429
\* with Retry-After equal to ceil(1/R).
C13_BurstThenInverseRate ==
    [][\A c \in Clients : ConsumeStep(c) =>
          LET o == gate[c].context.org_id
              n == AdmittedInBurst(o)
          IN  /\ BurstAdmits(c)
              /\ (n >= 0 /\ n * Scale = limiter.capacity) =>
                    /\ gate'[c].response.status = 429
                    /\ gate'[c].response.headers.retry_after =
                          CeilDiv(Scale, limiter.rate_per_sec * TicksPerSec)]_vars

\* C13: starting from a full bucket of capacity C and rate R, the first
\* n <= C requests inside a window shorter than 1/R seconds are all
\* admitted, and the (C+1)-th request inside that window is answered 429
\* with Retry-After equal to ceil((1 - t) / R), where t < 1 is the token
\* fraction refilled since the burst began; that is ceil(1/R) when R is at
\* least one token per second or when no time has passed.
C13_BurstThenRetryAfterDeficit ==
    [][\A c \in Clients : ConsumeStep(c) =>
          LET o == gate[c].context.org_id
              n == AdmittedInBurst(o)
              t == (now - burst[o].start) * limiter.rate_per_sec
          IN  /\ BurstAdmits(c)
              /\ (n >= 0 /\ n * Scale = limiter.capacity) =>
                    /\ gate'[c].response.status = 429
                    /\ buckets'[o].tokens = t
                    /\ gate'[c].response.headers.retry_after =
                          CeilDiv(Scale - t, limiter.rate_per_sec * TicksPerSec)
                    /\ (limiter.rate_per_sec * TicksPerSec >= Scale \/ t = 0) =>
                          gate'[c].response.headers.retry_after =
                             CeilDiv(Scale, limiter.rate_per_sec * TicksPerSec)]_vars

\* the request after a burst that emptied the bucket was refused, some time
\* into the window
C13_Witness ==
    \E c \in Clients :
        LET o == gate[c].context.org_id
        IN  /\ gate[c].response.status = 429
            /\ gate[c].context.some
            /\ burst[o].admitted * Scale = limiter.capacity
            /\ burst[o].start < buckets[o].last_refill
            /\ buckets[o].last_refill = now
            /\ (now - burst[o].start) * limiter.rate_per_sec < Scale

\* the step in which the response of an admitted request c is sent
RespondStep(c) == gate[c].pc = "next" /\ gate'[c].pc = "done"

\* C14: the rate-limit headers report the bucket as the decision left it.
\* An admitted request carries X-RateLimit-Limit = floor(capacity),
\* X-RateLimit-Remaining = floor(max(0, tokens after the decrement)) and
\* X-RateLimit-Reset = ceil((capacity - tokens) / rate); a rejected one
\* carries Remaining 0 and Retry-After = ceil((1 - tokens) / rate).  With
\* capacity 2 and rate 1, three requests in quick succession get Remaining 1,
\* Remaining 0, and then 429 with Retry-After 1.
C14_HeadersReportBucket ==
    [][\A c \in Clients :
          LET o == gate[c].context.org_id
              per_sec == limiter.rate_per_sec * TicksPerSec
              n == AdmittedInBurst(o)
              example == limiter = TokenBuckets(4, 2) /\ n >= 0
          IN  /\ (ConsumeStep(c) /\ gate'[c].pc = "next") =>
                    /\ gate'[c].decision.tokens = buckets'[o].tokens
                    /\ gate'[c].decision.capacity = limiter.capacity
                    /\ (example /\ n = 0) => gate'[c].decision.tokens \div Scale = 1
                    /\ (example /\ n = 1) => gate'[c].decision.tokens \div Scale = 0
              /\ RespondStep(c) =>
                    LET tokens == gate[c].decision.tokens
                        h == gate'[c].response.headers
                    IN  /\ gate'[c].response.status = 200
                        /\ h.limit = limiter.capacity \div Scale
                        /\ h.remaining = (IF tokens < 0 THEN 0 ELSE tokens) \div Scale
                        /\ h.reset = CeilDiv(limiter.capacity - tokens, per_sec)
                        /\ h.retry_after = -1
              /\ (ConsumeStep(c) /\ gate'[c].pc = "done") =>
                    LET tokens == buckets'[o].tokens
                        h == gate'[c].response.headers
                    IN  /\ gate'[c].response.status = 429
                        /\ h.limit = limiter.capacity \div Scale
                        /\ h.remaining = 0
                        /\ h.reset = CeilDiv(limiter.capacity - tokens, per_sec)
                        /\ h.retry_after = CeilDiv(Scale - tokens, per_sec)
                        /\ (example /\ n = 2) => h.retry_after = 1]_vars

\* capacity 2, rate 1: the second request of a burst was answered with
\* Remaining 0 out of a fractional token count, and the third with 429
C14_Witness ==
    /\ limiter = TokenBuckets(4, 2)
    /\ \E c, d \in Clients :
         /\ gate[c].response.status = 200
         /\ gate[c].response.headers.remaining = 0
         /\ gate[c].response.headers.reset = 2
         /\ gate[d].response.status = 429
         /\ gate[d].response.headers.retry_after = 1
         /\ gate[d].context.org_id = gate[c].context.org_id

\* the key a request presents as the specification describes it: the
\* bearer token of Authorization if it is not empty, otherwise X-Hermes-Key
\* if it is not empty, both trimmed
presented_key(headers) ==
    LET raw == headers.authorization.v
        bearer == IF headers.authorization.some /\ Len(raw) >= 7
                     /\ ToLower(SubSeq(raw, 1, 6)) = "bearer"
                  THEN Trim(SubSeq(raw, 7, Len(raw))) ELSE ""
        key == Trim(headers.x_hermes_key.v)
    IN  IF bearer # "" THEN Hdr(bearer)
        ELSE IF headers.x_hermes_key.some /\ key # "" THEN Hdr(key)
        ELSE NoHdr

\* C15: the key of a request is the bearer token of Authorization (scheme
\* matched without regard to case) or the value of X-Hermes-Key, trimmed, an
\* empty value counting as not presented.  A request without a key is
\* answered 401 missing_api_key, one with a key outside the table 401
\* invalid_api_key, and one with a key of the table gets that key's
\* (org_id, api_key_id) as its context.
C15_AuthenticationOutcome ==
    \A c \in Clients :
        gate[c].pc # "idle" =>
            LET key == presented_key(gate[c].headers)
                context == IF key.some THEN authenticate(key.v) ELSE NoContext
            IN  IF ~key.some
                THEN /\ gate[c].response.status = 401
                     /\ gate[c].response.error = "missing_api_key"
                ELSE IF ~context.some
                THEN /\ gate[c].response.status = 401
                     /\ gate[c].response.error = "invalid_api_key"
                ELSE /\ gate[c].context = context
                     /\ gate[c].response.status \in {0, 200, 429}
                     /\ gate[c].response.status = 200 =>
                            gate[c].response.context = context

(***************************************************************************)
(* Properties of the idempotency cache                                     *)
(***************************************************************************)
\* call c has returned, and began after the one earlier call with its key
\* had returned a successful response
Replayed(c) == cl[c].pc = "done" /\ cl[c].prior.some

\* C16 as stated: when POST /listings is issued twice with the same
\* non-empty Idempotency-Key and the first call completed successfully, the
\* second returns the response of the first and does not execute the
\* pipeline again.
C16_ReplayIsIdentical ==
    \A c \in Clients :
        Replayed(c) => (cl[c].response = cl[c].prior /\ ~cl[c].ran)

\* C16: when POST /listings is issued twice with the same non-empty
\* Idempotency-Key and the first call completed successfully, the second
\* returns the response of the first and does not execute the pipeline
\* again, provided the cache is the in-process map, or Redis is configured
\* and accepted the first response, has not dropped the entry and answers
\* the lookups; otherwise the second call executes the pipeline again or
\* returns what a later execution stored.
C16_ReplayIsIdenticalWhenCached ==
    \A c \in Clients :
        Replayed(c) =>
            IF ~redis.configured \/ ~hist.lost[cl[c].key.v]
            THEN cl[c].response = cl[c].prior /\ ~cl[c].ran
            ELSE cl[c].ran \/ cl[c].response \in hist.returned[cl[c].key.v]

C16_Witness ==
    /\ ~redis.configured
    /\ \E c \in Clients :
         /\ Replayed(c)
         /\ cl[c].key = Hdr("k1")
         /\ cl[c].response = Reply(TRUE, 1)
         /\ ~cl[c].ran
         /\ hist.execs["k1"] = 1

\* C17: concurrent calls with the same Idempotency-Key are serialized by
\* the cache: whatever their interleaving, at most one of them executes the
\* pipeline successfully and all of them return the same response.  It is
\* stated for a process without Redis, where no lookup can fail.
C17_OneExecutionPerKey ==
    \A c, d \in Clients :
        (/\ c # d
         /\ cl[c].key.some /\ cl[c].key = cl[d].key
         /\ cl[c].response.some /\ cl[c].response.ok
         /\ cl[d].response.some /\ cl[d].response.ok
         /\ ~redis.configured) =>
            /\ cl[c].response = cl[d].response
            /\ ~(cl[c].ran /\ cl[d].ran)

\* the step in which call c gets the answer of its cache lookup
LookupStep(c) == cl[c].pc = "lookup" /\ cl'[c].pc # "lookup"

\* C18: a lookup that fails is a miss: the call goes on to execute the
\* pipeline, which it can always do, and what a call returns is a response
\* of a pipeline execution, never the failure of the lookup.
C18_FailedLookupIsMiss ==
    /\ [][\A c \in Clients :
            (LookupStep(c) /\ redis.configured /\ ~redis.up) =>
                (cl'[c].pc = "run" /\ cl'[c].response = NoReply)]_vars
    /\ [](\A c \in Clients :
            /\ cl[c].pc = "run" => ENABLED CreateRun(c)
            /\ cl[c].response.some =>
                  /\ cl[c].response.run \in 1..hist.runs
                  /\ cl[c].pc = "done" /\ ~cl[c].ran =>
                        cl[c].response \in hist.returned[cl[c].key.v])

\* a call whose lookup failed although Redis holds the response of the
\* earlier call with its key
C18_Witness ==
    \E c \in Clients :
        /\ redis.configured /\ ~redis.up
        /\ cl[c].pc = "run"
        /\ cl[c].prior.some
        /\ redis.store[cl[c].key.v] = cl[c].prior

(***************************************************************************)
(* Properties of the overrides and of image validation                     *)
(***************************************************************************)
\* the report the step has just pushed carries this name and is marked as
\* coming from an override
PushedOverrideReport(name) ==
    /\ Len(stages') = Len(stages) + 1
    /\ stages'[Len(stages')].name = name
    /\ stages'[Len(stages')].output.source = "override"

\* the step ends the run with InvalidInput tagged with this stage
FailedInvalid(name) ==
    /\ pc' = "done"
    /\ result'.tag = "err"
    /\ result'.err.kind = "InvalidInput"
    /\ result'.err.stage = name

\* C19: a stage whose override is supplied does no external work (no call
\* leaves the process, in particular no LLM call), its report is marked
\* "source": "override" and its value is the supplied data; an override that
\* fails validation (an empty or oversized image list, a product that does
\* not fit the schema) ends the run with InvalidInput tagged with the stage.
C19_OverrideSemantics ==
    [][/\ (pc = "resolve_images" /\ pc' # pc /\ req.overrides.some
            /\ req.overrides.resolved_images.some) =>
            LET imgs == req.overrides.resolved_images.v
            IN  /\ calls' = calls
                /\ IF imgs = <<>> \/ Len(imgs) > MAX_IMAGES
                   THEN FailedInvalid("resolve_images") /\ stages' = stages
                   ELSE /\ images' = imgs
                        /\ pc' = "select_category"
                        /\ PushedOverrideReport("resolve_images")
                        /\ stages'[Len(stages')].output.count = Len(imgs)
       /\ (pc = "select_category" /\ pc' # pc /\ req.overrides.some
            /\ req.overrides.category.some) =>
            /\ calls' = calls
            /\ selection' = req.overrides.category.v
            /\ pc' = "fetch_taxonomy"
            /\ PushedOverrideReport("select_category")
       /\ (pc = "extract_product" /\ pc' # pc /\ req.overrides.some
            /\ req.overrides.product.some) =>
            LET value == req.overrides.product.v
            IN  /\ calls' = calls
                /\ IF value.name = None
                   THEN FailedInvalid("extract_product") /\ stages' = stages
                   ELSE /\ product'.name = value.name
                        /\ product'.image = value.image
                        /\ pc' = "build_listing"
                        /\ PushedOverrideReport("extract_product")]_vars

\* a run with all three overrides has passed build_listing without a call
\* to the LLM for the product
C19_Witness ==
    /\ req.overrides.some
    /\ req.overrides.resolved_images.some
    /\ req.overrides.category.some
    /\ req.overrides.product.some
    /\ Len(stages) >= 7
    /\ stages[1].output.source = "override"
    /\ stages[2].output.source = "override"
    /\ stages[6].output.source = "override"
    /\ \A i \in 1..Len(calls) : calls[i].target # "extract_product"
    /\ product.name = "Override"

\* C20: an image URL whose scheme is not http or https (for instance
\* ftp://example.com/a.jpg) makes resolve_images fail with InvalidInput, so
\* the images a run carries past resolve_images all have the scheme http or
\* https.
C20_OnlyHttpImagesPass ==
    /\ \A i \in 1..Len(images) : UrlScheme(images[i]) \in {"http", "https"}
    /\ (pc = "done" /\ result.tag = "err" /\ result.err.stage = "resolve_images") =>
            result.err.kind = "InvalidInput"

\* the distinct images a request names in images_source: the tokens of its
\* entries, trimmed, the empty ones left out
NamedImages(request) ==
    LET entries == SelectSeq(MapTrim(FlatTokenize(request.images_source)), NonEmptyStr)
    IN  {entries[i] : i \in 1..Len(entries)}

\* the step in which the run passes through resolve_images
ResolveStep == pc = "resolve_images" /\ pc' # pc

SelectStep == pc = "select_category" /\ pc' # pc

\* requests that agree with request on the six hashed fields and differ
\* in the others
SeedTwins(request) ==
    { [request EXCEPT !.dry_run = d, !.use_signed_urls = u, !.images_source = i,
                      !.overrides = NoOverrides] :
        d \in BOOLEAN, u \in BOOLEAN, i \in {request.images_source, <<"https://b/9.jpg">>} }

\* image lists that agree with imgs on the first three URLs: a list of
\* fewer than three has itself only, a longer one any tail after the third
ImageTwins(imgs) ==
    IF Len(imgs) < 3 THEN {imgs}
    ELSE { Take(imgs, 3) \o tail :
             tail \in {<<>>, <<"https://b/4.jpg">>, <<"https://b/4.jpg", "https://b/5.jpg">>} }

CategoryOverridden == req.overrides.some /\ req.overrides.category.some

\* C23: with overrides.category supplied, the selection handed on is the
\* override (id, tree id and label unchanged), and every later stage that
\* depends on the category works from it: fetch_taxonomy reports its id and
\* the aspects of its label, prepare_conditions the conditions of its label,
\* the listing carries its id, and publish_offer reports its label and
\* offers its id.
C23_OverrideCategoryUsedDownstream ==
    CategoryOverridden =>
        LET ov == req.overrides.category.v IN
        /\ selection # NoSelection =>
              /\ selection.id = ov.id
              /\ selection.tree_id = ov.tree_id
              /\ selection.label = ov.label
        /\ conditions # NoConditions => conditions = prepare_conditions(ov).value
        /\ listing # NoListing =>
              /\ listing.category_id = ov.id
              /\ listing.condition = prepare_conditions(ov).value.default_condition
        /\ \A i \in 1..Len(stages) :
              /\ stages[i].name = "select_category" =>
                    /\ stages[i].output.selected.id = ov.id
                    /\ stages[i].output.selected.tree_id = ov.tree_id
                    /\ stages[i].output.selected.label = ov.label
              /\ stages[i].name = "fetch_taxonomy" =>
                    /\ stages[i].output.category_id = ov.id
                    /\ stages[i].output.aspect_count = Len(build_aspects(ov.label))
              /\ stages[i].name = "prepare_conditions" =>
                    stages[i].output.allowed = prepare_conditions(ov).value.allowed
              /\ stages[i].name = "publish_offer" =>
                    /\ stages[i].output.category = ov.label
                    /\ stages[i].output.create_offer.category_id = ov.id

C23_Witness ==
    /\ pc = "done"
    /\ result.tag = "ok"
    /\ CategoryOverridden
    /\ req.overrides.category.v.id
         # select_category(req, images, CATEGORY_POOL, compute_seed(req, images)).value.id
    /\ \E i \in 1..Len(result.stages) :
          /\ result.stages[i].name = "publish_offer"
          /\ result.stages[i].output.category = "Collectible Shoes"
    /\ listing.condition = "NEW_IN_BOX"


\* the step in which the run asks the LLM for the product
ExtractStep ==
    /\ pc = "extract_product" /\ pc' # pc
    /\ ~(req.overrides.some /\ req.overrides.product.some)

BuildStep == pc = "build_listing" /\ pc' # pc

\* the step has made an LLM call with this purpose, and the call failed
LlmCallFailed(target) ==
    /\ Len(calls') = Len(calls) + 1
    /\ calls'[Len(calls')] = Call("llm_chat", target, "error")

\* C24: an LLM failure does not fail the run. The extract_product stage
\* never ends the run, and when its LLM call fails the product is the
\* deterministic fallback product and the stage is reported; build_listing
\* fails only before it calls the LLM, and when the description call fails
\* the listing is built with the templated fallback description.
C24_LlmFailureIsReplaced ==
    [][/\ ExtractStep =>
            /\ pc' = "build_listing"
            /\ result' = result
            /\ LlmCallFailed("extract_product") =>
                  /\ product' = fallback_product(req.sku, images)
                  /\ Len(stages') = Len(stages) + 1
                  /\ stages'[Len(stages')].name = "extract_product"
                  /\ stages'[Len(stages')].output.name = fallback_product(req.sku, images).name
       /\ BuildStep =>
            /\ pc' = "done" => calls' = calls
            /\ LlmCallFailed("description") =>
                  /\ pc' = "after_build"
                  /\ result' = result
                  /\ listing'.title = truncate(product.name, TITLE_LIMIT)
                  /\ listing'.description
                       = llm_description_fallback(listing'.title,
                                                  bullet_points_from_product(product))
                  /\ stages'[Len(stages')].name = "build_listing"]_vars

C24_Witness ==
    /\ pc = "done"
    /\ result.tag = "ok"
    /\ Len(calls) >= 2
    /\ calls[1] = Call("llm_chat", "extract_product", "error")
    /\ calls[2] = Call("llm_chat", "description", "error")
    /\ product = fallback_product(req.sku, images)
    /\ listing.description
         = llm_description_fallback(listing.title, bullet_points_from_product(product))


PushStep == pc = "push_inventory" /\ pc' # pc

\* the calls the step has added to the run's record
NewCalls == SubSeq(calls', Len(calls) + 1, Len(calls'))

\* the step has pushed the report of push_inventory with status UPSERTED
Upserted ==
    /\ pc' = "publish_offer"
    /\ result' = result
    /\ Len(stages') = Len(stages) + 1
    /\ stages'[Len(stages')].name = "push_inventory"
    /\ stages'[Len(stages')].output.status = "UPSERTED"

\* C25: without an access token push_inventory makes no network call and
\* reports status UPSERTED. With a token, a failed location upsert is passed
\* over and the inventory item upsert is still made; a failed inventory item
\* upsert ends the run with an Internal error of push_inventory, no report
\* is pushed and publish_offer is not executed; a successful one reports
\* UPSERTED.
C25_PushInventoryFailureHandling ==
    [][PushStep =>
          IF ebay_token = None
          THEN NewCalls = <<>> /\ Upserted
          ELSE LET item == NewCalls[Len(NewCalls)] IN
               /\ Len(NewCalls) \in {1, 2}
               /\ item.op = "upsert_inventory_item"
               /\ Len(NewCalls) = 2 => NewCalls[1].op = "upsert_inventory_location"
               /\ item.resp = "ok" => Upserted
               /\ item.resp = "error" =>
                     /\ pc' = "done"
                     /\ result'.tag = "err"
                     /\ result'.err.kind = "Internal"
                     /\ result'.err.stage = "push_inventory"
                     /\ stages' = stages
                     /\ po' = po /\ offers' = offers]_vars

C25_Witness ==
    /\ pc = "done"
    /\ result.tag = "ok"
    /\ ebay_token # None
    /\ \E i \in 1..(Len(calls) - 1) :
          /\ calls[i].op = "upsert_inventory_location" /\ calls[i].resp = "error"
          /\ calls[i + 1].op = "upsert_inventory_item" /\ calls[i + 1].resp = "ok"
    /\ \E i \in 1..Len(result.stages) : result.stages[i].name = "publish_offer"


\* the step in which the run looks up the tenant's configuration
OrgConfigStep == pc = "org_config" /\ pc' # pc

\* C26: a failure of the tenant-config lookup never fails the run: the run
\* goes on to resolve_images without a tenant configuration, and the
\* marketplace settings it resolves are the merchant location key, the
\* policy ids and the marketplace of the request.
C26_LookupFailureNeverFailsRun ==
    [][OrgConfigStep =>
          /\ pc' = "resolve_images"
          /\ result' = result
          /\ (calls' # calls /\ calls'[Len(calls')].resp = "error") =>
                /\ org_config' = NoOrgConfig
                /\ LET cfg == resolve_ebay_config(req, org_config') IN
                   cfg.ok =>
                      /\ cfg.value.merchant_location_key = req.merchant_location_key
                      /\ cfg.value.marketplace = req.marketplace
                      /\ cfg.value.location = None]_vars


\* the aspect is in SELECTION_ONLY mode
SelectionOnly(aspect) ==
    /\ aspect.aspectConstraint.some
    /\ aspect.aspectConstraint.aspectMode # None
    /\ ToUpper(aspect.aspectConstraint.aspectMode) = "SELECTION_ONLY"

\* the aspect values whose case-folded, whitespace-collapsed text is that
\* of one of the candidates
MatchingValues(aspect, candidates) ==
    { j \in 1..Len(aspect.aspectValues) :
        \E c \in 1..Len(candidates) :
            normalize_text(aspect.aspectValues[j]) = normalize_text(candidates[c]) }

\* C27: for an aspect in SELECTION_ONLY mode the map holds no value that is
\* not one of the aspect's aspectValues: every value stored under the
\* aspect's name is an aspect value in the taxonomy's own casing (with its
\* surrounding blanks removed) whose case-folded, whitespace-collapsed text
\* matches a candidate of the product, and an aspect none of whose values
\* matches a candidate has no entry in the map.
C27_SelectionOnlyEmitsAllowedValues ==
    hsuf.op = "build_aspects" =>
        \A i \in 1..Len(hsuf.taxonomy) :
            LET aspect == hsuf.taxonomy[i]
                name == Trim(aspect.localizedAspectName)
                matching == MatchingValues(aspect,
                                           hsuf_values_for_aspect(hsuf.product, aspect))
            IN  SelectionOnly(aspect) =>
                    /\ matching = {} <=> name \notin DOMAIN hsuf.aspects
                    /\ name \in DOMAIN hsuf.aspects =>
                          \A k \in 1..Len(hsuf.aspects[name]) :
                              \E j \in matching :
                                  hsuf.aspects[name][k] = Trim(aspect.aspectValues[j])

C27_Witness ==
    /\ hsuf.op = "build_aspects"
    /\ hsuf.product.brand = "Acme"
    /\ hsuf.product.color = " BLACK / sand"
    /\ hsuf.taxonomy = ebay_aspects(build_aspects("Collectibles"))
    /\ hsuf.aspects = ("Color" :> <<"Black", "Sand">>)


\* C28: every CategorySelection that select_category hands to the later
\* stages has a confidence within [0.0, 0.99] (0..99 hundredths), and a
\* selection derived from the seed has 0.55 + (seed mod 40)/100 capped at
\* 0.95.
C28_ConfidenceWithinRange ==
    selection # NoSelection =>
        /\ selection.confidence \in 0..99
        /\ ~CategoryOverridden =>
              selection.confidence = Min(55 + (compute_seed(req, images) % 40), 95)


\* C29: every ListingPlan build_listing returns has a title of at most
\* TITLE_LIMIT characters and a description of at most DESCRIPTION_LIMIT
\* characters, whatever the length of the product's name, of its description
\* and of the text the LLM returned.
C29_PlanWithinLimits ==
    (hsuf.op = "build_listing" /\ hsuf.outcome.ok) =>
        /\ Len(hsuf.outcome.value.title) <= TITLE_LIMIT
        /\ Len(hsuf.outcome.value.description) <= DESCRIPTION_LIMIT


\* C30: for every category label prepare_conditions returns a non-empty
\* ordered list of allowed condition codes whose first element is the
\* default_condition, so that the default is one of the allowed codes; a
\* label that names a shoe gets the shoe list even when it also names a
\* collectible, a label that names only a collectible the collectible list,
\* any other label the general list.
C30_ConditionsByKeywordDefaultFirst ==
    hsuf.op = "prepare_conditions" =>
        LET bundle == hsuf.outcome.value
            label == ToLower(hsuf.label)
        IN  /\ hsuf.outcome.ok
            /\ bundle.allowed # <<>>
            /\ bundle.default_condition = bundle.allowed[1]
            /\ \E i \in 1..Len(bundle.allowed) : bundle.allowed[i] = bundle.default_condition
            /\ bundle.allowed =
                  (IF Contains(label, "shoe")
                   THEN <<"NEW_IN_BOX", "USED_LIKE_NEW", "USED_GOOD", "USED_FAIR">>
                   ELSE IF Contains(label, "collectible")
                   THEN <<"NEW", "UNOPENED", "DISPLAY_ONLY", "USED">>
                   ELSE <<"NEW", "USED_LIKE_NEW", "USED_GOOD", "USED">>)

C30_Witness ==
    /\ hsuf.op = "prepare_conditions"
    /\ hsuf.label = "Collectibles & Shoe Care"
    /\ hsuf.outcome.value.default_condition = "NEW_IN_BOX"
    /\ Len(hsuf.outcome.value.allowed) = 4


\* the positions in the run's record of the calls with this operation
CallsOf(op) == { i \in 1..Len(calls) : calls[i].op = op }

\* C31: withdraw-and-retry is a single attempt. withdraw_offer is called
\* only right after the first update_offer on the chosen offer failed, at
\* most once, and a successful withdraw is followed by exactly one more
\* update_offer on the same offer; when the withdraw or the second update
\* fails the stage returns Internal and publish is not called. A run issues
\* at most two updates and one withdraw.
C31_WithdrawRetryIsSingleAttempt ==
    /\ Cardinality(CallsOf("withdraw_offer")) <= 1
    /\ Cardinality(CallsOf("update_offer")) <= 2
    /\ \A w \in CallsOf("withdraw_offer") :
          /\ w > 1
          /\ calls[w - 1] = Call("update_offer", calls[w].target, "error")
          /\ CallsOf("update_offer") \cap (1..(w - 1)) = {w - 1}
          /\ calls[w].resp = "ok" =>
                /\ pc = "po_update_retry" <=> Len(calls) = w
                /\ Len(calls) > w =>
                      /\ calls[w + 1].op = "update_offer"
                      /\ calls[w + 1].target = calls[w].target
                      /\ CallsOf("update_offer") = {w - 1, w + 1}
                      /\ calls[w + 1].resp = "error" =>
                            /\ Len(calls) = w + 1
                            /\ Finished /\ PublishFailedAs("Internal")
          /\ calls[w].resp = "error" =>
                /\ Len(calls) = w
                /\ Finished /\ PublishFailedAs("Internal")
    /\ (Cardinality(CallsOf("update_offer")) = 2) => CallsOf("withdraw_offer") # {}

C31_Witness ==
    /\ Finished /\ PublishSucceeded
    /\ Cardinality(CallsOf("update_offer")) = 2
    /\ Cardinality(CallsOf("withdraw_offer")) = 1
    /\ Cardinality(CallsOf("publish_offer")) = 1


\* C32: only the answer 409 (EntityExists) to create_offer starts the
\* reconciliation. Any other failure of create_offer is the last
\* marketplace call of the run, which ends with an Internal error of
\* publish_offer; a lookup is issued only right after a 409, and update,
\* withdraw and publish calls only in a run whose create_offer succeeded or
\* was answered 409.
C32_OnlyEntityExistsReconciles ==
    /\ Cardinality(CallsOf("create_offer")) <= 1
    /\ \A c \in CallsOf("create_offer") :
          calls[c].resp = "error" =>
              /\ Len(calls) = c
              /\ Finished /\ PublishFailedAs("Internal")
    /\ \A i \in CallsOf("get_offers_by_sku") :
          i > 1 /\ calls[i - 1].op = "create_offer" /\ calls[i - 1].resp = "409"
    /\ \A i \in ReconcileCalls :
          \E c \in CallsOf("create_offer") :
              /\ c < i
              /\ calls[c].resp \in {"ok", "409"}
              /\ calls[i].op \in {"update_offer", "withdraw_offer"} => calls[c].resp = "409"

C32_Witness ==
    /\ Finished /\ PublishFailedAs("Internal")
    /\ calls # <<>>
    /\ calls[Len(calls)].op = "create_offer"
    /\ calls[Len(calls)].resp = "error"


\* the offer id a successful create_offer of this run returned: the offer
\* the marketplace appended for the created sku
CreatedOfferIds ==
    { offers[Len(offers)].offerId : c \in
        { c \in CallsOf("create_offer") :
            /\ calls[c].resp = "ok"
            /\ offers # <<>>
            /\ offers[Len(offers)].sku = calls[c].target } }

\* C33: within one run publish_offer is only called on an offer id that
\* earlier in the same run was returned by a successful create_offer or was
\* the target of a successful update_offer; and a run that returns success
\* with a marketplace token has called publish exactly once, that call
\* succeeded, and the listing id it returns is not empty.
C33_PublishOnlyCreatedOrUpdatedOffer ==
    /\ \A p \in CallsOf("publish_offer") :
          \/ /\ \E c \in CallsOf("create_offer") : c < p /\ calls[c].resp = "ok"
             /\ calls[p].target \in CreatedOfferIds
          \/ \E u \in CallsOf("update_offer") :
                u < p /\ calls[u].resp = "ok" /\ calls[u].target = calls[p].target
    /\ (Finished /\ result.tag = "ok" /\ ebay_token # None) =>
          /\ Cardinality(CallsOf("publish_offer")) = 1
          /\ calls[Len(calls)].op = "publish_offer"
          /\ calls[Len(calls)].resp = "ok"
          /\ result.listing_id # None
          /\ Len(result.listing_id) > 0
          /\ po.published = "" => result.listing_id = fallback_listing_id

C33_Witness ==
    /\ Finished /\ result.tag = "ok" /\ ebay_token # None
    /\ po.published = ""
    /\ result.listing_id = fallback_listing_id
    /\ \E u \in CallsOf("update_offer") :
          calls[u].resp = "ok" /\ calls[u].target = calls[Len(calls)].target


\* the operations of the run that reach the marketplace
MarketplaceOps ==
    OfferOps \cup {"exchange_refresh_token", "upsert_inventory_location",
                   "upsert_inventory_item"}

MarketplaceCalls == { i \in 1..Len(calls) : calls[i].op \in MarketplaceOps }

\* C34: a dry run has no marketplace side effect, whatever the
\* configuration: in every step of a run with dry_run set the run's record
\* holds no token exchange, no location or inventory upsert and no offer
\* create, lookup, update, withdraw or publish, the run holds no marketplace
\* token, and the marketplace's offers stay as they were.
C34_DryRunHasNoMarketplaceEffect ==
    [][ (req'.dry_run /\ pc' # "idle") =>
            /\ MarketplaceCalls' = {}
            /\ ebay_token' = None
            /\ offers' = offers ]_vars

C34_Witness ==
    /\ Finished /\ req.dry_run
    /\ pipe.ebay_network_enabled /\ pipe.ebay_refresh_token
    /\ result.tag = "ok" /\ result.listing_id = preview_listing_id
    /\ Len(stages) = 7
    /\ offers # <<>>


\* the tokens org o has at the present time, before a request takes one:
\* a full bucket if the org has none yet, else the stored count with the
\* refill for the time elapsed, held at the capacity
TokensAvailable(o) ==
    IF ~buckets[o].present THEN limiter.capacity
    ELSE Min(buckets[o].tokens + (now - buckets[o].last_refill) * limiter.rate_per_sec,
             limiter.capacity)

\* the step in which the middleware passes the request of c to the handler
Admitted(c) == gate[c].pc = "consume" /\ gate'[c].pc = "next"

\* the step in which the middleware answers c with this status
Answered(c, status) ==
    gate[c].response.status # status /\ gate'[c].response.status = status

\* C35: the protected handler is invoked only for a request whose key the
\* table recognizes and for which exactly one token was taken from the
\* bucket of that key's org; a request answered 401 or 429 never reaches
\* the handler; and a 429 takes nothing from the bucket.
C35_HandlerOnlyAfterOneToken ==
    [][ \A c \in Clients :
          LET key == ExtractedKey[gate[c].headers]
              org_id == gate[c].context.org_id
          IN  /\ gate'[c].pc = "next" =>
                    \/ gate[c].pc = "next" /\ gate'[c] = gate[c]
                    \/ /\ Admitted(c)
                       /\ key.some /\ authenticate(key.v) = gate[c].context
                       /\ gate[c].context.some
                       /\ TokensAvailable(org_id) >= Scale
                       /\ buckets'[org_id].present
                       /\ buckets'[org_id].tokens = TokensAvailable(org_id) - Scale
              /\ Answered(c, 200) => gate[c].pc = "next"
              /\ Answered(c, 401) =>
                    /\ gate[c].pc \in {"idle", "done"}
                    /\ gate'[c].pc = "done"
                    /\ gate'[c].response.context = NoContext
                    /\ buckets' = buckets
              /\ Answered(c, 429) =>
                    /\ gate[c].pc = "consume"
                    /\ gate'[c].pc = "done"
                    /\ gate'[c].response.context = NoContext
                    /\ TokensAvailable(org_id) < Scale
                    /\ buckets'[org_id].tokens = TokensAvailable(org_id)
                    /\ buckets[org_id].present =>
                          buckets'[org_id].tokens >= buckets[org_id].tokens ]_vars

\* one request of an org was passed to the handler and answered, another
\* of the same org was rejected with 429 while the bucket held part of a
\* token
C35_Witness ==
    \E c, d \in Clients :
        /\ gate[c].response.status = 200
        /\ gate[d].response.status = 429
        /\ gate[c].response.context.org_id = gate[d].context.org_id
        /\ buckets[gate[d].context.org_id].tokens > 0


\* the step in which the request of c, made with a key of org o, goes
\* through the limiter
ConsumesFor(c, o) ==
    /\ gate[c].pc = "consume"
    /\ gate'[c].pc # "consume"
    /\ gate[c].context.org_id = o

\* C36: the buckets are independent per org.  The bucket of an org (its
\* token count and its last-refill time, or its absence) changes only in a
\* step in which a request made with a key of that same org goes through
\* the limiter, so a request of org A leaves every other org's bucket
\* unchanged; and a request answered 401 changes no bucket.
C36_BucketsIndependentPerOrg ==
    [][ /\ \A o \in OrgIds :
              buckets'[o] # buckets[o] => \E c \in Clients : ConsumesFor(c, o)
        /\ \A c \in Clients : \A o \in OrgIds :
              ConsumesFor(c, o) =>
                  \A other \in OrgIds \ {o} : buckets'[other] = buckets[other]
        /\ \A c \in Clients :
              gate'[c].response.status = 401 /\ gate'[c] # gate[c] =>
                  buckets' = buckets ]_vars

\* both orgs hold a bucket, refilled at different times, and a request was
\* answered 401 since
C36_Witness ==
    /\ \A o \in OrgIds : buckets[o].present
    /\ buckets["demo-org"].last_refill # buckets["org-b"].last_refill
    /\ \E c \in Clients : gate[c].response.status = 401


\* the jobs the status map holds as Running
RunningJobs == { id \in JobIds : statuses[id].state = "Running" }

\* C37: at most one job is Running at any time, whatever the number of
\* concurrent enqueues: the worker sets a job to Running only in a step
\* before which no job is Running, every job it took from the channel
\* earlier being Completed or Failed, and the job it sets is the one it
\* holds.
C37_OneJobRunningAtATime ==
    [][ /\ Cardinality(RunningJobs') <= 1
        /\ \A j \in RunningJobs' \ RunningJobs :
              /\ RunningJobs = {}
              /\ j = wjob
              /\ \A k \in JobIds \ {j} :
                    statuses[k].state \in {"Absent", "Queued", "Completed", "Failed"}
              /\ \A k \in JobIds \ {j} :
                    statuses[k].state = "Queued" =>
                        \/ \E i \in 1..Len(chan) : chan[i] = k
                        \/ \E h \in Handlers :
                              hjob[h] = k /\ hpc[h] \in {"send", "send_wait"} ]_vars

\* one job is Running after an earlier one finished, while two handlers
\* are enqueueing: one job waits in the channel and one send is pending
C37_Witness ==
    /\ Cardinality(RunningJobs) = 1
    /\ \E k \in JobIds : statuses[k].state \in {"Completed", "Failed"}
    /\ \E h \in Handlers : hpc[h] \in {"send", "send_wait"}


\* the step in which the pipeline run of call c returns
RunStep(c) == cl[c].pc = "run" /\ cl'[c].pc # "run"

\* C38: a failed pipeline run stores nothing under the Idempotency-Key.  The
\* step in which a run fails returns the error and leaves both caches as
\* they were; every entry of the in-process map and of Redis is a successful
\* response; and a request whose key has no entry, as after a failed run,
\* executes the pipeline again.
C38_FailedRunStoresNothing ==
    [][ /\ \A c \in Clients :
              (RunStep(c) /\ ~cl'[c].response.ok) =>
                  /\ cl'[c].pc = "done"
                  /\ idem' = idem
                  /\ redis' = redis
        /\ \A k \in IdemKeys :
              /\ idem'[k].some => idem'[k].ok
              /\ redis'.store[k].some => redis'.store[k].ok
        /\ \A c \in Clients :
              /\ (LookupStep(c) /\ hist.returned[cl[c].key.v] = {}) => cl'[c].pc = "run"
              /\ cl[c].pc = "run" => ENABLED CreateRun(c) ]_vars

\* the run of one call failed and a later call with the same key executed
\* the pipeline again, successfully, and cached its response
C38_Witness ==
    \E c, d \in Clients :
        /\ cl[c].pc = "done" /\ cl[c].ran /\ ~cl[c].response.ok
        /\ cl[c].key.some /\ cl[d].key = cl[c].key
        /\ cl[d].pc = "done" /\ cl[d].ran /\ cl[d].response.ok
        /\ cl[d].response.run > cl[c].response.run
        /\ hist.returned[cl[c].key.v] = {cl[d].response}


(***************************************************************************)
(* Properties of tenant isolation                                          *)
(***************************************************************************)
\* C39: the idempotency cache is isolated per tenant: a response that the
\* pipeline run of a request of one org produced, and that was stored under
\* an Idempotency-Key, is never returned from the cache to a request
\* authenticated as a different org.
C39_CacheIsolatedPerOrg ==
    \A c, d \in Clients :
        (/\ ClientContext(c).org_id # ClientContext(d).org_id
         /\ cl[d].ran /\ cl[d].response.some /\ cl[d].response.ok
         /\ cl[c].pc = "done" /\ ~cl[c].ran /\ cl[c].response.some) =>
            cl[c].response # cl[d].response


\* the contexts of the callers of GET /jobs/{id}: one per key of the table
CallerContexts == {authenticate("demo-key"), authenticate("key-b")}

\* C40: GET /jobs/{id} returns the state and result of a job only to a
\* caller authenticated as the org that enqueued it: a step in which the
\* status of a finished job is returned is taken by a caller whose org is
\* the org of the request that enqueued the job.
C40_JobStatusOnlyToOwner ==
    [][ \A context \in CallerContexts : \A id \in JobIds : \A h \in Handlers :
          (/\ hjob[h] = id
           /\ get_job_status(context, id)
           /\ last_get'.found
           /\ last_get'.state.state = "Completed") =>
              HandlerContext(h).org_id = context.org_id ]_vars


====
